---- MODULE Spec2Model ----
(***************************************************************************)
(* Present-proof v3.0 exchange: the exchange record (V30PresExRecord), the *)
(* manager (V30PresManager), the request handler (V30PresRequestHandler)   *)
(* and the indy format handler (IndyPresExchangeHandler).                  *)
(*                                                                         *)
(* Representation.  A Python string that the code splits on ":" is kept as *)
(* the sequence of its colon-separated segments ("ABC:2:degree:1.0" is     *)
(* <<"ABC","2","degree","1.0">>, "true" is <<"true">>); a restriction key  *)
(* is kept as the sequence of its "::"-separated segments                  *)
(* ("attr::age::value" is <<"attr","age","value">>).  A Python dict is a   *)
(* function, a list a sequence, and a 0-based index i is kept as i + 1.    *)
(***************************************************************************)
EXTENDS Integers, Sequences, FiniteSets, TLC

VARIABLES
    store,      \* the persisted exchange records, in order of creation
    last,       \* the most recent operation: its arguments and what it did
    steps,      \* the number of operations run so far
    chk         \* input and outcome of one run of the restriction check

vars == <<store, last, steps, chk>>

(***************************************************************************)
(* Bounds of the model.                                                    *)
(***************************************************************************)
MaxRecords == 2
MaxSteps == 3
MaxClauses == 2

None == "None"

\* An operation, or a save, that raised nothing.
OK == "ok"

(***************************************************************************)
(* V30PresExRecord constants.                                              *)
(***************************************************************************)
INITIATOR_SELF == "self"
INITIATOR_EXTERNAL == "external"
ROLE_PROVER == "prover"
ROLE_VERIFIER == "verifier"
STATE_PROPOSAL_SENT == "proposal-sent"
STATE_PROPOSAL_RECEIVED == "proposal-received"
STATE_REQUEST_SENT == "request-sent"
STATE_REQUEST_RECEIVED == "request-received"
STATE_PRESENTATION_SENT == "presentation-sent"
STATE_PRESENTATION_RECEIVED == "presentation-received"
STATE_DONE == "done"
STATE_ABANDONED == "abandoned"

States ==
    { STATE_PROPOSAL_SENT, STATE_PROPOSAL_RECEIVED, STATE_REQUEST_SENT,
      STATE_REQUEST_RECEIVED, STATE_PRESENTATION_SENT,
      STATE_PRESENTATION_RECEIVED, STATE_DONE, STATE_ABANDONED }

EmptyMap == <<>>

(***************************************************************************)
(* Attachment formats.  V30PresFormat.Format.get gives the registered      *)
(* format of an identifier, or None.                                       *)
(***************************************************************************)
INDY == "indy"
UNREGISTERED == "unregistered"

FormatGet(fmt) == IF fmt = INDY THEN INDY ELSE None

(***************************************************************************)
(* Helpers of the indy handler's check.                                    *)
(***************************************************************************)
\* messaging.util.canon: lowercase, whitespace removed.
canon(name) ==
    CASE name = "Age" -> "age"
      [] name = "a ge" -> "age"
      [] OTHER -> name

\* indy.models.predicate.Predicate.get: the predicate named by its
\* mathematical or its fortran spelling, in any letter case.
PredicateGet(p) ==
    CASE p \in {">=", "GE", "ge"} -> "GE"
      [] p \in {"<", "LT", "lt"} -> "LT"
      [] OTHER -> None

\* l[-n] of a Python list.
FromEnd(l, n) == l[Len(l) - n + 1]

\* The part of criteria that comes from the identifiers entry.
IdentCriteria(ident) ==
    LET schema_id == ident.schema_id
        cred_def_id == ident.cred_def_id
    IN  (<<"schema_id">> :> schema_id)
     @@ (<<"schema_issuer_did">> :> <<FromEnd(schema_id, 4)>>)
     @@ (<<"schema_name">> :> <<FromEnd(schema_id, 2)>>)
     @@ (<<"schema_version">> :> <<FromEnd(schema_id, 1)>>)
     @@ (<<"cred_def_id">> :> cred_def_id)
     @@ (<<"issuer_did">> :> <<FromEnd(cred_def_id, 5)>>)

\* criteria of a revealed attribute.
AttrCriteria(ident, name, raw) ==
    (<<"attr", name, "value">> :> raw) @@ IdentCriteria(ident)

\* criteria of a revealed attribute group.
GroupCriteria(ident, values) ==
    [k \in {<<"attr", n, "value">> : n \in DOMAIN values} |-> values[k[2]].raw]
    @@ IdentCriteria(ident)

\* r.items() <= criteria.items()
ItemsSubset(r, criteria) ==
    \A k \in DOMAIN r : k \in DOMAIN criteria /\ r[k] = criteria[k]

\* A faulty restriction step: every clause has to be satisfied.
RestrictionsAll(req_restrictions, criteria) ==
    \A i \in 1..Len(req_restrictions) :
        ItemsSubset(req_restrictions[i], criteria)

\* The restriction step: the negation of the condition that raises.
RestrictionsOk(req_restrictions, criteria) ==
    ~ ( ~ (\E i \in 1..Len(req_restrictions) :
               ItemsSubset(req_restrictions[i], criteria))
        /\ Len(req_restrictions) # 0 )

\* A clause of a requested predicate after the keys that start with
\* "attr::" were popped.
PopAttrKeys(req_restriction) ==
    [k \in {x \in DOMAIN req_restriction : x[1] # "attr"} |-> req_restriction[k]]

\* A faulty predicate step: the clauses are checked as the request has them.
StripRestrictionsNot(req_restrictions) == req_restrictions

StripRestrictions(req_restrictions) ==
    [i \in 1..Len(req_restrictions) |-> PopAttrKeys(req_restrictions[i])]

(***************************************************************************)
(* IndyPresExchangeHandler.receive_pres: _check_proof_vs_proposal.         *)
(* proof is the content of a presentation's indy attachment, proof_req the *)
(* content of the stored request's indy attachment.                        *)
(***************************************************************************)
\* What dict.get gives for a referent the section does not have.
NoSpec == [none |-> TRUE]

\* A faulty lookup: a referent the section does not have is taken to be
\* requested without restrictions.
DictGetOrDefault(section, reft) ==
    IF reft \in DOMAIN section THEN section[reft]
    ELSE [name |-> "age", names |-> <<"age">>, p_type |-> ">=",
          p_value |-> 18, restrictions |-> <<>>]

\* section.get(reft)
DictGet(section, reft) ==
    IF reft \in DOMAIN section THEN section[reft] ELSE NoSpec

\* proof_req_attr_spec["name"] raises KeyError when the request asks under
\* this referent for a group ("names").
RevealedAttrOk(proof, proof_req, reft) ==
    LET attr_spec == proof.requested_proof.revealed_attrs[reft]
        proof_req_attr_spec == DictGet(proof_req.requested_attributes, reft)
    IN  /\ proof_req_attr_spec # NoSpec
        /\ "name" \in DOMAIN proof_req_attr_spec
        /\ LET criteria == AttrCriteria(
                   proof.identifiers[attr_spec.sub_proof_index],
                   proof_req_attr_spec.name, attr_spec.raw)
           IN  RestrictionsOk(proof_req_attr_spec.restrictions, criteria)

RevealedAttrGroupOk(proof, proof_req, reft) ==
    LET attr_spec == proof.requested_proof.revealed_attr_groups[reft]
        proof_req_attr_spec == DictGet(proof_req.requested_attributes, reft)
    IN  /\ proof_req_attr_spec # NoSpec
        /\ LET criteria == GroupCriteria(
                   proof.identifiers[attr_spec.sub_proof_index],
                   attr_spec.values)
           IN  RestrictionsOk(proof_req_attr_spec.restrictions, criteria)

\* The for ... else over ge_proofs: the first assertion on the requested
\* attribute decides; 0 when there is none.
FirstOnAttr(ge_proofs, attr_name) ==
    LET on == {i \in 1..Len(ge_proofs) : ge_proofs[i].attr_name = attr_name}
    IN  IF on = {} THEN 0 ELSE CHOOSE i \in on : \A j \in on : i <= j

PredicatePresented(ge_proofs, proof_req_pred_spec) ==
    LET i == FirstOnAttr(ge_proofs, canon(proof_req_pred_spec.name))
    IN  /\ i # 0
        /\ PredicateGet(ge_proofs[i].p_type)
               = PredicateGet(proof_req_pred_spec.p_type)
        /\ ge_proofs[i].value = proof_req_pred_spec.p_value

PredicateOk(proof, proof_req, reft) ==
    LET pred_spec == proof.requested_proof.predicates[reft]
        proof_req_pred_spec == DictGet(proof_req.requested_predicates, reft)
    IN  /\ proof_req_pred_spec # NoSpec
        /\ LET req_restrictions ==
                   StripRestrictions(proof_req_pred_spec.restrictions)
               criteria ==
                   IdentCriteria(proof.identifiers[pred_spec.sub_proof_index])
           IN  /\ PredicatePresented(
                      proof.proof[pred_spec.sub_proof_index], proof_req_pred_spec)
               /\ RestrictionsOk(req_restrictions, criteria)

\* The check ends in the KeyError of a revealed attribute whose requested
\* spec has no "name".
NameMissing(proof, proof_req) ==
    \E reft \in DOMAIN proof.requested_proof.revealed_attrs :
        /\ reft \in DOMAIN proof_req.requested_attributes
        /\ "name" \notin DOMAIN proof_req.requested_attributes[reft]

CheckProofVsProposal(proof, proof_req) ==
    /\ \A reft \in DOMAIN proof.requested_proof.revealed_attrs :
           RevealedAttrOk(proof, proof_req, reft)
    /\ \A reft \in DOMAIN proof.requested_proof.revealed_attr_groups :
           RevealedAttrGroupOk(proof, proof_req, reft)
    /\ \A reft \in DOMAIN proof.requested_proof.predicates :
           PredicateOk(proof, proof_req, reft)

(***************************************************************************)
(* Messages and attachments of the exchange.                               *)
(***************************************************************************)
Threads == {"t1"}
Conns == {"A", "B"}
NoFilter == "nofilter"

Att(format, content) == [format |-> format, content |-> content]

Msg(kind, thread, will_confirm, attachments) ==
    [kind |-> kind, thread |-> thread, will_confirm |-> will_confirm,
     attachments |-> attachments]

\* The value of a message field that holds None.
NoMsg == Msg(None, None, FALSE, <<>>)

SchemaIdA == <<"ABC", "2", "degree", "1.0">>
SchemaIdB == <<"DEF", "2", "degree", "1.0">>
CredDefIdA == <<"XYZ", "3", "CL", "12", "tag">>

IndyProofReq(requested_attributes, requested_predicates) ==
    [requested_attributes |-> requested_attributes,
     requested_predicates |-> requested_predicates]

IndyProof(revealed_attrs, revealed_attr_groups, predicates, identifiers, proof) ==
    [requested_proof |->
         [revealed_attrs |-> revealed_attrs,
          revealed_attr_groups |-> revealed_attr_groups,
          predicates |-> predicates],
     identifiers |-> identifiers,
     proof |-> proof]

\* A proof request for attribute "degree" of a credential of schema A.
ProofReqA ==
    IndyProofReq(
        "r1" :> [name |-> "degree",
                 restrictions |-> << (<<"schema_id">> :> SchemaIdA) >>],
        EmptyMap)

\* A proof of "degree" from a credential of the given schema.
ProofOf(schema_id) ==
    IndyProof(
        "r1" :> [raw |-> <<"PhD">>, sub_proof_index |-> 1],
        EmptyMap, EmptyMap,
        << [schema_id |-> schema_id, cred_def_id |-> CredDefIdA] >>,
        << <<>> >>)

Opaque == [opaque |-> "x"]

ProposalAttachments ==
    { << Att(INDY, ProofReqA) >>, << Att(UNREGISTERED, Opaque) >> }

RequestAttachments ==
    { << Att(INDY, ProofReqA) >>, << Att(UNREGISTERED, Opaque) >> }

PresAttachments ==
    { << Att(INDY, ProofOf(SchemaIdA)) >>, << Att(INDY, ProofOf(SchemaIdB)) >>,
      << Att(UNREGISTERED, Opaque) >> }

ProposalMsgs ==
    { Msg("proposal", t, FALSE, a) : t \in Threads, a \in ProposalAttachments }

RequestMsgs ==
    { Msg("request", t[1], t[2], a) :
          t \in Threads \X BOOLEAN, a \in RequestAttachments }

PresMsgs ==
    { Msg("pres", t, FALSE, a) : t \in Threads, a \in PresAttachments }

\* input_formats of a message: the attachments whose format is registered.
Supported(attachments) ==
    SelectSeq(attachments, LAMBDA att : FormatGet(att.format) # None)

\* The loops "for att in attachments: if Format.get(att.format.format).api ==
\* INDY.api: x = att.content": .api of None raises AttributeError.
HasUnregistered(attachments) ==
    \E i \in 1..Len(attachments) : FormatGet(attachments[i].format) = None

HasIndy(attachments) ==
    \E i \in 1..Len(attachments) : FormatGet(attachments[i].format) = INDY

\* The content the loop leaves: that of the last indy attachment.
IndyContent(attachments) ==
    LET indy == SelectSeq(attachments, LAMBDA att : FormatGet(att.format) = INDY)
    IN  indy[Len(indy)].content

(***************************************************************************)
(* The exchange record and the store.                                      *)
(***************************************************************************)
\* V30PresExRecord.__init__; last_state is BaseRecord's _last_state.
V30PresExRecord(connection_id, thread_id, initiator, role, state, pres_proposal, pres_request, auto_present, auto_verify) ==
    [connection_id |-> connection_id, thread_id |-> thread_id,
     initiator |-> initiator, role |-> role, state |-> state,
     pres_proposal |-> pres_proposal, pres_request |-> pres_request,
     pres |-> NoMsg, verified |-> None,
     auto_present |-> auto_present, auto_verify |-> auto_verify,
     error_msg |-> None, last_state |-> state]

\* BaseRecord.save: the record as written, its _last_state brought up to date.
Saved(rec) == [rec EXCEPT !.last_state = rec.state]

\* retrieve_by_tag_filter(session, {"thread_id": thread_id}, post_filter):
\* the index of the one record found, 0 for StorageNotFoundError and -1 for
\* StorageDuplicateError.
RetrieveByTagFilter(thread_id, post_filter) ==
    LET found == {i \in 1..Len(store) :
                     /\ store[i].thread_id = thread_id
                     /\ post_filter = NoFilter
                        \/ store[i].connection_id = post_filter}
    IN  IF found = {} THEN 0
        ELSE IF Cardinality(found) > 1 THEN -1
        ELSE CHOOSE i \in found : TRUE

\* The serialized form of a message snapshot ("ser") and the message read
\* back from it ("de").  The body of a proposal is dumped without
\* will_confirm, which the message read back has at its default.
Ser(msg) ==
    [type |-> msg.kind,
     thread |-> [thid |-> msg.thread],
     body |-> IF msg.kind = "proposal" THEN [comment |-> None]
              ELSE [comment |-> None, will_confirm |-> msg.will_confirm],
     attachments |-> [i \in 1..Len(msg.attachments) |->
                          [format |-> msg.attachments[i].format,
                           data |-> [json |-> msg.attachments[i].content]]]]

De(ser) ==
    Msg(ser.type, ser.thread.thid,
        IF "will_confirm" \in DOMAIN ser.body THEN ser.body.will_confirm
        ELSE FALSE,
        [i \in 1..Len(ser.attachments) |->
             Att(ser.attachments[i].format, ser.attachments[i].data.json)])

SnapshotProps == {"pres_proposal", "pres_request", "pres"}

\* A faulty record_value: the presentation is left out.
RecordValueWithoutPres(rec) ==
    [prop \in {"connection_id", "initiator", "role", "state", "verified",
               "auto_present", "auto_verify", "error_msg"}
              \cup {p \in {"pres_proposal", "pres_request"} : rec[p] # NoMsg} |->
         IF prop \in SnapshotProps THEN Ser(rec[prop]) ELSE rec[prop]]

\* V30PresExRecord.record_value: the plain properties, and the serialized
\* form of each snapshot that is not None.
RecordValue(rec) ==
    [prop \in {"connection_id", "initiator", "role", "state", "verified",
               "auto_present", "auto_verify", "error_msg"}
              \cup {p \in SnapshotProps : rec[p] # NoMsg} |->
         IF prop \in SnapshotProps THEN Ser(rec[prop]) ELSE rec[prop]]

\* The tags of a stored record: TAG_NAMES.
Tags(rec) == [thread_id |-> rec.thread_id]

\* BaseRecord.from_storage: the record made from the stored value and tags.
FromStorage(value, tags) ==
    LET snapshot(p) == IF p \in DOMAIN value THEN De(value[p]) ELSE NoMsg
    IN  [V30PresExRecord(value.connection_id, tags.thread_id, value.initiator,
                         value.role, value.state, snapshot("pres_proposal"),
                         snapshot("pres_request"), value.auto_present,
                         value.auto_verify)
            EXCEPT !.pres = snapshot("pres"),
                   !.verified = value.verified,
                   !.error_msg = value.error_msg]

\* V30PresExRecord.save_error_state on a record object: the record after the
\* call, and the number of writes the call made.
SaveErrorStateWrites(rec, state) == IF rec.last_state = state THEN 0 ELSE 1

SaveErrorState(rec, state, reason) ==
    IF rec.last_state = state
    THEN rec
    ELSE Saved([rec EXCEPT
                  !.state = IF state # None THEN state ELSE STATE_ABANDONED,
                  !.error_msg = IF reason # None THEN reason ELSE @])

\* What BaseRecord.save may do: write, or raise StorageError.
StorageOutcomes == {OK, "StorageError"}

\* A faulty save_error_state: the StorageError of its save is let through.
SaveErrorStateRaises(rec, state, storage) ==
    IF rec.last_state = state THEN OK ELSE storage

\* What save_error_state returns to its caller when its save had the
\* outcome storage: the StorageError is caught and logged.
SaveErrorStateOutcome(rec, state, storage) == OK

\* Whether save_error_state caught a StorageError.
SaveErrorStateSwallowed(rec, state, storage) ==
    rec.last_state # state /\ storage = "StorageError"

(***************************************************************************)
(* What an operation did.                                                  *)
(***************************************************************************)
NoSupportedFormats == "V30PresManagerError: No supported formats"

\* No problem report went out.
NoReport == [code |-> None, en |-> None, thread |-> None]

\* prior is the persisted state of the record before the operation (None
\* when the operation creates it), first the state in which the operation
\* first persisted a record it created, report the problem report it sent,
\* swallowed whether it caught and logged a StorageError, calls the manager
\* operations a handler called.
Did(op, rec, outcome, saves, sent, vcalls, target) ==
    [op |-> op, rec |-> rec, outcome |-> outcome, saves |-> saves,
     sent |-> sent, vcalls |-> vcalls, target |-> target,
     prior |-> IF rec \in 1..Len(store) THEN store[rec].state ELSE None,
     first |-> None, report |-> NoReport, swallowed |-> FALSE,
     calls |-> <<>>]

\* The restriction check is not being run.
NoChk == [phase |-> "off", kind |-> None, restrictions |-> <<>>,
          schema_id |-> <<>>, raw |-> <<>>, accepted |-> FALSE]

Init ==
    /\ store = <<>>
    /\ last = Did("init", 0, OK, 0, <<>>, 0, None)
    /\ steps = 0
    /\ chk = NoChk

\* One more operation runs.
More == steps < MaxSteps

Step == steps' = steps + 1 /\ UNCHANGED chk

\* A message this agent creates carries a fresh id, which is its thread id.
InUse(thread) == \E i \in 1..Len(store) : store[i].thread_id = thread

OwnMsgs(msgs) == {m \in msgs : ~InUse(m.thread)}

(***************************************************************************)
(* V30PresManager: the operations that create a record.                    *)
(***************************************************************************)
CreateExchangeForProposal(connection_id, pres_proposal_message, auto_present) ==
    /\ More
    /\ Len(store) < MaxRecords
    /\ LET pres_ex_record == Saved(V30PresExRecord(
               connection_id, pres_proposal_message.thread, INITIATOR_SELF,
               ROLE_PROVER, STATE_PROPOSAL_SENT, pres_proposal_message, NoMsg,
               auto_present, FALSE))
       IN  /\ store' = Append(store, pres_ex_record)
           /\ last' = [Did("create_exchange_for_proposal", Len(store) + 1, OK,
                            1, <<>>, 0, None)
                           EXCEPT !.first = pres_ex_record.state]
    /\ Step

\* The record receive_pres_proposal makes and saves.
ReceivedProposalRecord(message, connection_id) ==
    Saved(V30PresExRecord(
        connection_id, message.thread, INITIATOR_EXTERNAL,
        ROLE_VERIFIER, STATE_PROPOSAL_RECEIVED, message, NoMsg,
        FALSE, FALSE))

ReceivePresProposal(message, connection_id) ==
    /\ More
    /\ Len(store) < MaxRecords
    /\ LET pres_ex_record == ReceivedProposalRecord(message, connection_id)
       IN  /\ store' = Append(store, pres_ex_record)
           /\ last' = [Did("receive_pres_proposal", Len(store) + 1, OK, 1,
                            <<>>, 0, None)
                           EXCEPT !.first = pres_ex_record.state]
    /\ Step

CreateExchangeForRequest(connection_id, pres_request_message, auto_verify) ==
    /\ More
    /\ Len(store) < MaxRecords
    /\ LET pres_ex_record == Saved(V30PresExRecord(
               connection_id, pres_request_message.thread, INITIATOR_SELF,
               ROLE_VERIFIER, STATE_REQUEST_SENT, NoMsg, pres_request_message,
               FALSE, auto_verify))
       IN  /\ store' = Append(store, pres_ex_record)
           /\ last' = [Did("create_exchange_for_request", Len(store) + 1, OK,
                            1, <<>>, 0, None)
                           EXCEPT !.first = pres_ex_record.state]
    /\ Step

(***************************************************************************)
(* V30PresManager.create_bound_request.  The indy handler builds the       *)
(* request attachment from the content of the proposal's indy attachment   *)
(* (the name, version and nonce it adds are not part of the model).        *)
(***************************************************************************)
CreateBoundRequestOutcome(rec) ==
    IF rec.pres_proposal = NoMsg THEN "AttributeError"
    ELSE IF Supported(rec.pres_proposal.attachments) = <<>>
         THEN NoSupportedFormats
    ELSE IF HasUnregistered(rec.pres_proposal.attachments)
         THEN "AttributeError"
    ELSE OK

\* AgentMessage._thread_id of a message whose _thread was set to
\* {"thid": thid}: the thid, or the message's own id when there is none.
ThreadId(thid) == IF thid # None THEN thid ELSE "message-id"

\* A faulty create_bound_request: the request starts a thread of its own.
BoundRequestMessageOwnThread(rec) ==
    Msg("request", ThreadId(None), TRUE,
        [k \in 1..Len(Supported(rec.pres_proposal.attachments)) |->
             Att(INDY, IndyContent(rec.pres_proposal.attachments))])

\* A faulty create_bound_request: the request does not ask for an ack.
BoundRequestMessageNoConfirm(rec) ==
    Msg("request", ThreadId(rec.thread_id), FALSE,
        [k \in 1..Len(Supported(rec.pres_proposal.attachments)) |->
             Att(INDY, IndyContent(rec.pres_proposal.attachments))])

BoundRequestMessage(rec) ==
    LET input_attachments == rec.pres_proposal.attachments
    IN  Msg("request", ThreadId(rec.thread_id), TRUE,
            [k \in 1..Len(Supported(input_attachments)) |->
                 Att(INDY, IndyContent(input_attachments))])

\* The record create_bound_request saves.
BoundRequestRecord(rec) ==
    LET pres_request_message == BoundRequestMessage(rec)
    IN  Saved([rec EXCEPT !.thread_id = pres_request_message.thread,
                          !.state = STATE_REQUEST_SENT,
                          !.pres_request = pres_request_message])

CreateBoundRequest(i) ==
    /\ More
    /\ LET rec == store[i]
           outcome == CreateBoundRequestOutcome(rec)
       IN  /\ store' = IF outcome = OK
                       THEN [store EXCEPT ![i] = BoundRequestRecord(rec)]
                       ELSE store
           /\ last' = Did("create_bound_request", i, outcome,
                          IF outcome = OK THEN 1 ELSE 0, <<>>, 0, None)
           /\ Step

(***************************************************************************)
(* V30PresManager.create_pres.  holder is what the indy handler's          *)
(* create_pres does with the wallet: OK, or the error it raises.           *)
(***************************************************************************)
HolderOutcomes == {OK, "V30PresFormatHandlerError", "IndyHolderError"}

\* A faulty create_pres: the test for an empty list of formats is left out.
CreatePresOutcomeUnguarded(rec, holder) ==
    IF rec.pres_request = NoMsg THEN "AttributeError" ELSE holder

CreatePresOutcome(rec, holder) ==
    IF rec.pres_request = NoMsg THEN "AttributeError"
    ELSE IF Supported(rec.pres_request.attachments) = <<>>
         THEN NoSupportedFormats
    ELSE holder

PresMessage(rec) ==
    Msg("pres", ThreadId(rec.thread_id), FALSE,
        [k \in 1..Len(Supported(rec.pres_request.attachments)) |->
             Att(INDY, ProofOf(SchemaIdA))])

\* A faulty create_pres: the state is not set.
CreatePresRecordKeepsState(rec) == Saved([rec EXCEPT !.pres = PresMessage(rec)])

\* The record create_pres saves.
CreatePresRecord(rec) ==
    Saved([rec EXCEPT !.state = STATE_PRESENTATION_SENT,
                      !.pres = PresMessage(rec)])

CreatePres(i, holder) ==
    /\ More
    /\ LET rec == store[i]
           outcome == CreatePresOutcome(rec, holder)
       IN  /\ store' = IF outcome = OK
                       THEN [store EXCEPT ![i] = CreatePresRecord(rec)]
                       ELSE store
           /\ last' = Did("create_pres", i, outcome,
                          IF outcome = OK THEN 1 ELSE 0, <<>>, 0, None)
           /\ Step

(***************************************************************************)
(* V30PresRequestHandler.handle, with V30PresManager.receive_pres_request. *)
(***************************************************************************)
\* The exceptions the handler catches around create_pres.
Caught == {"V30PresFormatHandlerError", "IndyHolderError"}

\* A faulty receive_pres_request: the state is not set.
ReceivePresRequestKeepsState(pres_ex_record) == Saved(pres_ex_record)

ReceivePresRequest(pres_ex_record) ==
    Saved([pres_ex_record EXCEPT !.state = STATE_REQUEST_RECEIVED])

\* problem_report_for_record(record, desc_en)
ProblemReportForRecord(record, desc_en) ==
    [code |-> "abandoned", en |-> desc_en, thread |-> record.thread_id]

\* A faulty handler: the problem report describes the error.
HandlerProblemReportSpecific(record, err) == ProblemReportForRecord(record, err)

\* The problem report the handler sends for the error it caught.
HandlerProblemReport(record, err) == ProblemReportForRecord(record, "abandoned")

\* A faulty handler: the connection is not looked at.
RefusesNever(connection_ready) == FALSE

\* "if not context.connection_ready: raise HandlerException"
Refuses(connection_ready) == ~connection_ready

PresRequestHandler(message, connection_id, connection_ready, auto_respond, holder, storage) ==
    /\ More
    /\ LET found == RetrieveByTagFilter(message.thread, connection_id)
           i == IF found = 0 THEN Len(store) + 1 ELSE found
           pres_ex_record ==
               IF found = 0
               THEN V30PresExRecord(connection_id, message.thread,
                        INITIATOR_EXTERNAL, ROLE_PROVER, None, NoMsg, message,
                        auto_respond, FALSE)
               ELSE [store[found] EXCEPT !.pres_request = message]
           received == ReceivePresRequest(pres_ex_record)
           presented == CreatePresOutcome(received, holder)
           failed == received.auto_present /\ presented \in Caught
           errored == SaveErrorStateOutcome(received, None, storage)
           final ==
               IF ~received.auto_present THEN received
               ELSE IF presented = OK THEN CreatePresRecord(received)
               ELSE IF presented \in Caught /\ storage = OK
                    THEN SaveErrorState(received, None, presented)
               ELSE received
           saves ==
               IF ~received.auto_present THEN 1
               ELSE IF presented = OK THEN 2
               ELSE IF presented \in Caught /\ storage = OK
                    THEN 1 + SaveErrorStateWrites(received, None)
               ELSE 1
           reported == failed /\ errored = OK
           sent ==
               IF ~received.auto_present THEN <<>>
               ELSE IF presented = OK THEN <<"pres">>
               ELSE IF reported THEN <<"problem-report">>
               ELSE <<>>
           outcome ==
               IF received.auto_present /\ presented \notin Caught \cup {OK}
               THEN presented
               ELSE IF failed THEN errored
               ELSE OK
       IN  /\ found = 0 /\ ~Refuses(connection_ready) => Len(store) < MaxRecords
           /\ store' = IF Refuses(connection_ready) \/ found = -1 THEN store
                       ELSE IF found = 0 THEN Append(store, final)
                       ELSE [store EXCEPT ![found] = final]
           /\ last' = IF Refuses(connection_ready)
                      THEN Did("pres_request_handler", 0, "HandlerException", 0, <<>>, 0,
                               None)
                      ELSE IF found = -1
                      THEN Did("pres_request_handler", 0, "StorageDuplicateError",
                               0, <<>>, 0,
                               None)
                      ELSE [Did("pres_request_handler", i, outcome, saves, sent,
                                0, None)
                               EXCEPT !.first = IF found = 0 THEN received.state
                                                ELSE None,
                                      !.report =
                                          IF reported
                                          THEN HandlerProblemReport(
                                                   SaveErrorState(received, None,
                                                                  presented),
                                                   presented)
                                          ELSE NoReport,
                                      !.swallowed =
                                          failed /\ SaveErrorStateSwallowed(
                                                        received, None, storage)]
           /\ Step

(***************************************************************************)
(* V30PresProposalHandler.handle, as its tests drive it: the handler       *)
(* refuses a connection that is not ready, has the manager receive the     *)
(* proposal and, under debug.auto_respond_presentation_proposal, has it    *)
(* create the bound request and replies with it.  ledger is what the       *)
(* format handler's create_bound_request does with the ledger.             *)
(***************************************************************************)
LedgerOutcomes == {OK, "LedgerError"}

\* The errors of create_bound_request the handler catches and logs.
ProposalHandlerCaught == {"LedgerError"}

\* A faulty handler: the reply goes out before the request is created.
ProposalHandlerSentAlways(auto_respond, bound) ==
    IF auto_respond THEN <<"request">> ELSE <<>>

\* What the handler sends: the request create_bound_request returned, or
\* the problem report for the error it caught.
ProposalHandlerSent(auto_respond, bound) ==
    IF ~auto_respond THEN <<>>
    ELSE IF bound = OK THEN <<"request">>
    ELSE IF bound \in ProposalHandlerCaught THEN <<"problem-report">>
    ELSE <<>>

PresProposalHandler(message, connection_id, connection_ready, auto_respond, ledger) ==
    /\ More
    /\ ~Refuses(connection_ready) => Len(store) < MaxRecords
    /\ LET received == ReceivedProposalRecord(message, connection_id)
           bound == IF CreateBoundRequestOutcome(received) # OK
                    THEN CreateBoundRequestOutcome(received)
                    ELSE ledger
           caught == auto_respond /\ bound \in ProposalHandlerCaught
           final ==
               IF ~auto_respond THEN received
               ELSE IF bound = OK THEN BoundRequestRecord(received)
               ELSE IF caught THEN SaveErrorState(received, None, bound)
               ELSE received
           saves ==
               IF ~auto_respond THEN 1
               ELSE IF bound = OK THEN 2
               ELSE IF caught THEN 1 + SaveErrorStateWrites(received, None)
               ELSE 1
       IN  /\ store' = IF Refuses(connection_ready) THEN store
                       ELSE Append(store, final)
           /\ last' = IF Refuses(connection_ready)
                      THEN Did("pres_proposal_handler", 0, "HandlerException",
                               0, <<>>, 0, None)
                      ELSE [Did("pres_proposal_handler", Len(store) + 1,
                                IF auto_respond /\ ~caught THEN bound ELSE OK,
                                saves, ProposalHandlerSent(auto_respond, bound),
                                0, None)
                               EXCEPT !.first = received.state,
                                      !.report =
                                          IF caught
                                          THEN HandlerProblemReport(final, bound)
                                          ELSE NoReport,
                                      !.calls =
                                          IF auto_respond
                                          THEN <<"receive_pres_proposal",
                                                 "create_bound_request">>
                                          ELSE <<"receive_pres_proposal">>]
           /\ Step

(***************************************************************************)
(* V30PresManager.receive_pres, with IndyPresExchangeHandler.receive_pres. *)
(***************************************************************************)
DisclosesAny(proof) ==
    \/ DOMAIN proof.requested_proof.revealed_attrs # {}
    \/ DOMAIN proof.requested_proof.revealed_attr_groups # {}
    \/ DOMAIN proof.requested_proof.predicates # {}

\* A faulty receive_pres of the indy handler: the check of the proof
\* against the request is left out.
IndyReceivePresUnchecked(message, pres_ex_record) ==
    IF HasUnregistered(message.attachments) THEN "AttributeError"
    ELSE IF pres_ex_record.pres_request = NoMsg THEN "AttributeError"
    ELSE IF HasUnregistered(pres_ex_record.pres_request.attachments)
         THEN "AttributeError"
    ELSE OK

\* The indy handler's receive_pres on a message that has an indy attachment.
IndyReceivePres(message, pres_ex_record) ==
    IF HasUnregistered(message.attachments) THEN "AttributeError"
    ELSE IF pres_ex_record.pres_request = NoMsg THEN "AttributeError"
    ELSE IF HasUnregistered(pres_ex_record.pres_request.attachments)
         THEN "AttributeError"
    ELSE IF ~HasIndy(pres_ex_record.pres_request.attachments)
         THEN IF DisclosesAny(IndyContent(message.attachments))
              THEN "TypeError" ELSE OK
    ELSE IF CheckProofVsProposal(
                IndyContent(message.attachments),
                IndyContent(pres_ex_record.pres_request.attachments))
         THEN OK
    ELSE IF NameMissing(IndyContent(message.attachments),
                        IndyContent(pres_ex_record.pres_request.attachments))
         THEN "KeyError"
    ELSE "V30PresFormatHandlerError"

\* The record the two lookups of receive_pres give.
ReceivePresLookup(thread_id, conn_id) ==
    LET first == RetrieveByTagFilter(
                     thread_id, IF conn_id = None THEN NoFilter ELSE conn_id)
    IN  IF first = 0 THEN RetrieveByTagFilter(thread_id, NoFilter) ELSE first

\* receive_pres on the record it fetched: the outcome of the format
\* handlers and of the assignment of the connection, and the record saved.
ReceivePresRecordOutcome(message, conn_id, pres_ex_record) ==
    IF HasIndy(message.attachments)
       /\ IndyReceivePres(message, pres_ex_record) # OK
    THEN IndyReceivePres(message, pres_ex_record)
    ELSE IF pres_ex_record.connection_id = None /\ conn_id = None
         THEN "AttributeError"
    ELSE OK

\* A faulty save: the state advances, the presentation is not kept.
ReceivePresRecordWithoutPres(message, conn_id, pres_ex_record) ==
    Saved([pres_ex_record EXCEPT
              !.state = STATE_PRESENTATION_RECEIVED,
              !.connection_id = IF @ = None THEN conn_id ELSE @])

ReceivePresRecord(message, conn_id, pres_ex_record) ==
    Saved([pres_ex_record EXCEPT
              !.pres = message,
              !.state = STATE_PRESENTATION_RECEIVED,
              !.connection_id = IF @ = None THEN conn_id ELSE @])

ReceivePresOutcome(message, conn_id, found) ==
    IF found = 0 THEN "StorageNotFoundError"
    ELSE IF found = -1 THEN "StorageDuplicateError"
    ELSE ReceivePresRecordOutcome(message, conn_id, store[found])

\* receive_pres with the outcome of its save (storage).
ReceivePresWith(message, conn_id, storage) ==
    /\ More
    /\ LET found == ReceivePresLookup(message.thread, conn_id)
           outcome == IF ReceivePresOutcome(message, conn_id, found) = OK
                      THEN storage
                      ELSE ReceivePresOutcome(message, conn_id, found)
       IN  /\ store' = IF outcome = OK
                       THEN [store EXCEPT ![found] =
                                ReceivePresRecord(message, conn_id, store[found])]
                       ELSE store
           /\ last' = Did("receive_pres", IF found > 0 THEN found ELSE 0, outcome,
                          IF outcome = OK THEN 1 ELSE 0, <<>>, 0, None)
           /\ Step

ReceivePres(message, conn_id) == ReceivePresWith(message, conn_id, OK)

(***************************************************************************)
(* receive_pres in its two sessions: the first fetches the record, the     *)
(* second saves it, and in between the format handlers run and other       *)
(* operations may be served.  chk holds the operation in flight.           *)
(***************************************************************************)
ReceivePresFetch(message, conn_id) ==
    /\ More
    /\ chk = NoChk
    /\ LET found == ReceivePresLookup(message.thread, conn_id)
       IN  /\ found > 0
           /\ chk' = [phase |-> "fetched", found |-> found,
                      pres_ex_record |-> store[found],
                      message |-> message, conn_id |-> conn_id]
           /\ last' = Did("receive_pres_fetch", found, OK, 0, <<>>, 0, None)
    /\ store' = store
    /\ steps' = steps + 1

\* The record the second session works on: the object the first fetched.
FetchedForSave(in_flight) == in_flight.pres_ex_record

ReceivePresSave ==
    /\ chk # NoChk
    /\ chk.phase = "fetched"
    /\ LET pres_ex_record == FetchedForSave(chk)
           outcome == ReceivePresRecordOutcome(chk.message, chk.conn_id,
                                               pres_ex_record)
       IN  /\ store' = IF outcome = OK
                       THEN [store EXCEPT ![chk.found] =
                                ReceivePresRecord(chk.message, chk.conn_id,
                                                  pres_ex_record)]
                       ELSE store
           /\ last' = Did("receive_pres", chk.found, outcome,
                          IF outcome = OK THEN 1 ELSE 0, <<>>, 0, None)
    /\ chk' = NoChk
    /\ steps' = steps

(***************************************************************************)
(* V30PresManager.verify_pres, with IndyPresExchangeHandler.verify_pres    *)
(* and send_pres_ack.  verified is what the IndyVerifier answers.          *)
(***************************************************************************)
\* The indy handler's verify_pres: OK when it reaches the verifier.
IndyVerifyPres(pres_ex_record) ==
    IF HasUnregistered(pres_ex_record.pres_request.attachments)
    THEN "AttributeError"
    ELSE IF pres_ex_record.pres = NoMsg THEN "AttributeError"
    ELSE IF HasUnregistered(pres_ex_record.pres.attachments)
         THEN "AttributeError"
    ELSE IF ~HasIndy(pres_ex_record.pres.attachments) THEN "TypeError"
    ELSE OK

VerifyPresOutcome(rec) ==
    IF rec.pres_request = NoMsg THEN "AttributeError"
    ELSE IF Supported(rec.pres_request.attachments) # <<>>
         THEN IndyVerifyPres(rec)
    ELSE OK

\* A faulty send_pres_ack: the reply goes out whether or not the profile
\* has a responder.
SendPresAckUnconditional(responder) == <<"ack">>

\* What send_pres_ack sends; responder is whether the profile has a
\* BaseResponder.
SendPresAck(responder) == IF responder THEN <<"ack">> ELSE <<>>

\* A faulty verify_pres: the ack does not depend on will_confirm.
VerifyPresSentAlways(pres_request_msg, responder) == SendPresAck(responder)

\* What verify_pres sends once the record is saved.
VerifyPresSent(pres_request_msg, responder) ==
    IF pres_request_msg.will_confirm THEN SendPresAck(responder) ELSE <<>>

\* A faulty verify_pres: the ack goes out before the record is saved.
VerifyPresReplyBeforeSave(pres_request_msg, responder, storage, delivery) ==
    IF delivery = OK THEN VerifyPresSent(pres_request_msg, responder) ELSE <<>>

\* What leaves verify_pres: the ack is sent after the save, and arrives
\* unless the responder's send_reply raises.
VerifyPresReply(pres_request_msg, responder, storage, delivery) ==
    IF storage = OK /\ delivery = OK
    THEN VerifyPresSent(pres_request_msg, responder) ELSE <<>>

\* A faulty verify_pres: the record is saved in the state it had.
VerifyPresRecordKeepsState(rec, verified) ==
    Saved([rec EXCEPT
              !.verified = IF Supported(rec.pres_request.attachments) # <<>>
                           THEN verified ELSE @])

\* The record verify_pres saves.
VerifyPresRecord(rec, verified) ==
    Saved([rec EXCEPT
              !.verified = IF Supported(rec.pres_request.attachments) # <<>>
                           THEN verified ELSE @,
              !.state = STATE_DONE])

\* verify_pres with the outcome of its save (storage) and of the
\* responder's send_reply (delivery).
VerifyPresWith(i, verified, responder, storage, delivery) ==
    /\ More
    /\ LET rec == store[i]
           ran == VerifyPresOutcome(rec) = OK
           saved == ran /\ storage = OK
           handlers == IF rec.pres_request = NoMsg THEN 0
                       ELSE Len(Supported(rec.pres_request.attachments))
           outcome == IF ~ran THEN VerifyPresOutcome(rec)
                      ELSE IF storage # OK THEN storage
                      ELSE IF rec.pres_request.will_confirm /\ responder
                           THEN delivery
                      ELSE OK
       IN  /\ store' = IF saved
                       THEN [store EXCEPT ![i] = VerifyPresRecord(rec, verified)]
                       ELSE store
           /\ last' = Did("verify_pres", i, outcome,
                          IF saved THEN 1 ELSE 0,
                          IF ran THEN VerifyPresReply(rec.pres_request, responder,
                                                      storage, delivery)
                                 ELSE <<>>,
                          IF ran THEN handlers ELSE 0,
                          None)
           /\ Step

VerifyPres(i, verified, responder) == VerifyPresWith(i, verified, responder, OK, OK)

(***************************************************************************)
(* V30PresManager.receive_pres_ack and receive_problem_report.             *)
(***************************************************************************)
LookupOutcome(found) ==
    IF found = 0 THEN "StorageNotFoundError"
    ELSE IF found = -1 THEN "StorageDuplicateError"
    ELSE OK

ReceivePresAck(thread_id, connection_id) ==
    /\ More
    /\ LET found == RetrieveByTagFilter(thread_id, connection_id)
           outcome == LookupOutcome(found)
       IN  /\ store' = IF outcome = OK
                       THEN [store EXCEPT ![found] = Saved([store[found] EXCEPT
                                 !.state = STATE_DONE])]
                       ELSE store
           /\ last' = Did("receive_pres_ack", IF found > 0 THEN found ELSE 0,
                          outcome, IF outcome = OK THEN 1 ELSE 0, <<>>, 0,
                          None)
           /\ Step

ReceiveProblemReport(thread_id, connection_id) ==
    /\ More
    /\ LET found == RetrieveByTagFilter(thread_id, connection_id)
           outcome == LookupOutcome(found)
       IN  /\ store' = IF outcome = OK
                       THEN [store EXCEPT ![found] = Saved([store[found] EXCEPT
                                 !.state = STATE_ABANDONED,
                                 !.error_msg = "abandoned: abandoned"])]
                       ELSE store
           /\ last' = Did("receive_problem_report",
                          IF found > 0 THEN found ELSE 0, outcome,
                          IF outcome = OK THEN 1 ELSE 0, <<>>, 0, None)
           /\ Step

(***************************************************************************)
(* V30PresExRecord.save_error_state called on a stored record.             *)
(***************************************************************************)
SaveErrorStateCall(i, state, reason, storage) ==
    /\ More
    /\ store' = IF storage = OK
                THEN [store EXCEPT
                         ![i] = SaveErrorState(store[i], state, reason)]
                ELSE store
    /\ last' = [Did("save_error_state", i,
                    SaveErrorStateOutcome(store[i], state, storage),
                    IF storage = OK THEN SaveErrorStateWrites(store[i], state)
                                    ELSE 0,
                    <<>>, 0,
                    IF state # None THEN state ELSE STATE_ABANDONED)
                   EXCEPT !.swallowed =
                              SaveErrorStateSwallowed(store[i], state, storage)]
    /\ Step

\* The settings and wallet outcomes that bear on a run of the request
\* handler: the auto-respond setting when the record is new, the holder's
\* outcome when the record auto-presents.
HandlerAutoResponds(message, connection_id) ==
    IF RetrieveByTagFilter(message.thread, connection_id) = 0
    THEN BOOLEAN ELSE {FALSE}

HandlerHolderOutcomes(message, connection_id, auto_respond) ==
    LET found == RetrieveByTagFilter(message.thread, connection_id)
        reached == Supported(message.attachments) # <<>>
    IN  IF found = -1 \/ ~reached THEN {OK}
        ELSE IF found = 0 THEN (IF auto_respond THEN HolderOutcomes ELSE {OK})
            ELSE IF store[found].auto_present THEN HolderOutcomes ELSE {OK}

\* The save of save_error_state bears on a run only when the holder failed
\* with an error the handler catches.
HandlerStorageOutcomes(holder) ==
    IF holder \in Caught THEN StorageOutcomes ELSE {OK}

\* The wallet's outcome bears on create_pres only when the holder is reached.
CreatePresHolderOutcomes(i) ==
    IF CreatePresOutcome(store[i], OK) = OK THEN HolderOutcomes ELSE {OK}

\* The verifier's answer bears on verify_pres only when a format handler
\* reaches the verifier, the responder only when an ack is due.
VerifierAnswers(i) ==
    IF VerifyPresOutcome(store[i]) = OK
       /\ Supported(store[i].pres_request.attachments) # <<>>
    THEN {"true", "false"} ELSE {"true"}

Responders(i) ==
    IF VerifyPresOutcome(store[i]) = OK /\ store[i].pres_request.will_confirm
    THEN BOOLEAN ELSE {TRUE}

\* The handler refuses a message on a connection that is not ready before it
\* reads it; one message stands for all.
NotReadyMsgs == {Msg("request", "t1", FALSE, << Att(INDY, ProofReqA) >>)}

Next ==
    \/ /\ More
       /\ \E c \in Conns, m \in OwnMsgs(ProposalMsgs), a \in BOOLEAN :
              CreateExchangeForProposal(c, m, a)
    \/ /\ More
       /\ \E c \in Conns, m \in ProposalMsgs : ReceivePresProposal(m, c)
    \/ /\ More
       /\ \E c \in Conns \cup {None}, m \in OwnMsgs(RequestMsgs), a \in BOOLEAN :
              CreateExchangeForRequest(c, m, a)
    \/ /\ More
       /\ \E i \in 1..Len(store) : CreateBoundRequest(i)
    \/ /\ More
       /\ \E i \in 1..Len(store) :
              \E h \in CreatePresHolderOutcomes(i) : CreatePres(i, h)
    \/ /\ More
       /\ \E m \in NotReadyMsgs, c \in Conns :
              PresRequestHandler(m, c, FALSE, FALSE, OK, OK)
    \/ /\ More
       /\ \E m \in RequestMsgs, c \in Conns :
              \E a \in HandlerAutoResponds(m, c) :
                  \E h \in HandlerHolderOutcomes(m, c, a) :
                      PresRequestHandler(m, c, TRUE, a, h, OK)
    \/ /\ More
       /\ \E m \in PresMsgs, c \in Conns \cup {None} : ReceivePres(m, c)
    \/ /\ More
       /\ \E i \in 1..Len(store) :
              \E v \in VerifierAnswers(i), r \in Responders(i) :
                  VerifyPres(i, v, r)
    \/ /\ More
       /\ \E t \in Threads, c \in Conns : ReceivePresAck(t, c)
    \/ /\ More
       /\ \E t \in Threads, c \in Conns : ReceiveProblemReport(t, c)
    \/ /\ More
       /\ \E i \in 1..Len(store), s \in {None, STATE_ABANDONED},
             r \in {None, "IndyHolderError"} :
              SaveErrorStateCall(i, s, r, OK)

Spec == Init /\ [][Next]_vars

(***************************************************************************)
(* The same operations over a store whose write inside save_error_state    *)
(* may fail: records are created and received, the request handler runs    *)
(* and save_error_state is called, each with either outcome of that write. *)
(***************************************************************************)
FaultNext ==
    \/ /\ More
       /\ \E c \in Conns \cup {None}, m \in OwnMsgs(RequestMsgs), a \in BOOLEAN :
              CreateExchangeForRequest(c, m, a)
    \/ /\ More
       /\ \E c \in Conns, m \in ProposalMsgs : ReceivePresProposal(m, c)
    \/ /\ More
       /\ \E m \in RequestMsgs, c \in Conns :
              \E a \in HandlerAutoResponds(m, c) :
                  \E h \in HandlerHolderOutcomes(m, c, a) :
                      \E st \in HandlerStorageOutcomes(h) :
                          PresRequestHandler(m, c, TRUE, a, h, st)
    \/ /\ More
       /\ \E i \in 1..Len(store), s \in {None, STATE_ABANDONED},
             r \in {None, "IndyHolderError"}, st \in StorageOutcomes :
              SaveErrorStateCall(i, s, r, st)

FaultSpec == Init /\ [][FaultNext]_vars

(***************************************************************************)
(* The verifier's side over a store whose normal saves may fail and a      *)
(* responder whose send_reply may raise.                                   *)
(***************************************************************************)
DeliveryOutcomes == {OK, "ResponderError"}

StorageNext ==
    \/ /\ More
       /\ \E c \in Conns \cup {None}, m \in OwnMsgs(RequestMsgs), a \in BOOLEAN :
              CreateExchangeForRequest(c, m, a)
    \/ /\ More
       /\ \E m \in PresMsgs, c \in Conns \cup {None} :
              \E st \in IF ReceivePresOutcome(m, c,
                               ReceivePresLookup(m.thread, c)) = OK
                        THEN StorageOutcomes ELSE {OK} :
                  ReceivePresWith(m, c, st)
    \/ /\ More
       /\ \E i \in 1..Len(store) :
              \E v \in VerifierAnswers(i), r \in Responders(i) :
                  \E st \in IF VerifyPresOutcome(store[i]) = OK
                            THEN StorageOutcomes ELSE {OK} :
                      \E d \in IF st = OK /\ r
                                  /\ VerifyPresOutcome(store[i]) = OK
                                  /\ store[i].pres_request.will_confirm
                               THEN DeliveryOutcomes ELSE {OK} :
                          VerifyPresWith(i, v, r, st, d)

StorageSpec == Init /\ [][StorageNext]_vars

(***************************************************************************)
(* save_error_state called without a target state on a record object:      *)
(* one the request handler has just built (no state, never saved), or one  *)
(* that was built or read with a state.  chk holds the object, store what  *)
(* was persisted.                                                          *)
(***************************************************************************)
ErrorStateInit ==
    /\ chk \in { [phase |-> "new", reason |-> None,
                  pres_ex_record |->
                      V30PresExRecord(c, m.thread, INITIATOR_EXTERNAL,
                                      ROLE_PROVER, st, NoMsg, m, a, FALSE)] :
                    c \in Conns, m \in RequestMsgs, a \in BOOLEAN,
                    st \in States \cup {None} }
    /\ store = IF chk.pres_ex_record.state = None THEN <<>>
               ELSE << chk.pres_ex_record >>
    /\ last = Did("init", 0, OK, 0, <<>>, 0, None)
    /\ steps = 0

\* The object after save_error_state(reason=reason): state and error_msg
\* are assigned before the save, _last_state follows when the save wrote.
SaveErrorStateOnObject(reason, storage) ==
    /\ chk.phase = "new"
    /\ LET rec == chk.pres_ex_record
           after == SaveErrorState(rec, None, reason)
           wrote == SaveErrorStateWrites(rec, None) = 1 /\ storage = OK
       IN  /\ chk' = [phase |-> "called", reason |-> reason,
                      pres_ex_record |->
                          IF wrote THEN after
                          ELSE [after EXCEPT !.last_state = rec.last_state]]
           /\ store' = IF wrote THEN << after >> ELSE store
           /\ last' = [Did("save_error_state", Len(store),
                           SaveErrorStateOutcome(rec, None, storage),
                           IF wrote THEN 1 ELSE 0, <<>>, 0, STATE_ABANDONED)
                          EXCEPT !.swallowed =
                                     SaveErrorStateSwallowed(rec, None, storage)]
    /\ steps' = steps + 1

ErrorStateNext ==
    \E reason \in {None, "IndyHolderError"}, storage \in StorageOutcomes :
        SaveErrorStateOnObject(reason, storage)

ErrorStateSpec == ErrorStateInit /\ [][ErrorStateNext]_vars

(***************************************************************************)
(* The two parties of one exchange from the moment the prover has sent its *)
(* presentation.  store[1] is the verifier's record, store[2] the          *)
(* prover's, each under the id its agent has for the connection; chk holds *)
(* whether the verifier's profile has a responder.  A message is delivered *)
(* to the operation of the peer that receives it.                          *)
(***************************************************************************)
TwoPartyInit ==
    /\ \E vc \in Conns, auto_present \in BOOLEAN :
         \E verifier \in
                { BoundRequestRecord(ReceivedProposalRecord(m, vc)) :
                      m \in {x \in ProposalMsgs : HasIndy(x.attachments)} }
                \cup
                { Saved(V30PresExRecord(vc, m.thread, INITIATOR_SELF,
                            ROLE_VERIFIER, STATE_REQUEST_SENT, NoMsg, m,
                            FALSE, auto_verify)) :
                      m \in {x \in RequestMsgs : HasIndy(x.attachments)},
                      auto_verify \in BOOLEAN } :
             LET pc == CHOOSE c \in Conns : c # vc
                 prover == CreatePresRecord(Saved(V30PresExRecord(
                               pc, verifier.pres_request.thread,
                               IF verifier.pres_proposal = NoMsg
                               THEN INITIATOR_EXTERNAL ELSE INITIATOR_SELF,
                               ROLE_PROVER, STATE_REQUEST_RECEIVED,
                               verifier.pres_proposal, verifier.pres_request,
                               auto_present, FALSE)))
             IN  store = << verifier, prover >>
    /\ chk \in [phase : {"parties"}, responder : BOOLEAN]
    /\ last = Did("init", 0, OK, 0, <<>>, 0, None)
    /\ steps = 0

\* The presentation the prover sent arrives at the verifier.
VerifierReceivesPres ==
    /\ last.op = "init"
    /\ ReceivePres(store[2].pres, store[1].connection_id)

\* The verifier verifies the presentation it accepted.
VerifierVerifies ==
    /\ last.op = "receive_pres"
    /\ last.outcome = OK
    /\ \E verified \in {"true", "false"} :
           VerifyPres(1, verified, chk.responder)

\* The ack the verifier sent arrives at the prover.
ProverReceivesAck ==
    /\ last.op = "verify_pres"
    /\ last.sent = <<"ack">>
    /\ ReceivePresAck(store[1].thread_id, store[2].connection_id)

TwoPartyNext ==
    \/ VerifierReceivesPres
    \/ VerifierVerifies
    \/ ProverReceivesAck

\* The ack is delivered: a message sent is eventually received.
TwoPartySpec ==
    TwoPartyInit /\ [][TwoPartyNext]_vars /\ WF_vars(ProverReceivesAck)

(***************************************************************************)
(* The two inbound handlers alone, on connections ready and not ready.     *)
(***************************************************************************)
\* The ledger's outcome bears on a run only when the handler auto-responds.
ProposalHandlerLedgerOutcomes(auto_respond) ==
    IF auto_respond THEN LedgerOutcomes ELSE {OK}

HandlerNext ==
    \/ /\ More
       /\ \E m \in ProposalMsgs, c \in Conns, a \in BOOLEAN :
              \E l \in ProposalHandlerLedgerOutcomes(a) :
                  PresProposalHandler(m, c, TRUE, a, l)
    \/ /\ More
       /\ \E m \in ProposalMsgs, c \in Conns, a \in BOOLEAN :
              PresProposalHandler(m, c, FALSE, a, OK)
    \/ /\ More
       /\ \E m \in RequestMsgs, c \in Conns, a \in BOOLEAN :
              PresRequestHandler(m, c, FALSE, a, OK, OK)
    \/ /\ More
       /\ \E m \in RequestMsgs, c \in Conns :
              \E a \in HandlerAutoResponds(m, c) :
                  \E h \in HandlerHolderOutcomes(m, c, a) :
                      PresRequestHandler(m, c, TRUE, a, h, OK)

HandlerSpec == Init /\ [][HandlerNext]_vars

(***************************************************************************)
(* A verifier's exchanges with receive_pres served in its two sessions, so *)
(* that a problem report or an ack on the same thread can be served        *)
(* between the fetch and the save.  steps counts the operations started.   *)
(***************************************************************************)
RaceNext ==
    \/ /\ More
       /\ \E c \in Conns \cup {None}, m \in OwnMsgs(RequestMsgs), a \in BOOLEAN :
              CreateExchangeForRequest(c, m, a)
    \/ /\ More
       /\ \E m \in PresMsgs, c \in Conns \cup {None} : ReceivePresFetch(m, c)
    \/ ReceivePresSave
    \/ /\ More
       /\ \E t \in Threads, c \in Conns : ReceiveProblemReport(t, c)
    \/ /\ More
       /\ \E t \in Threads, c \in Conns : ReceivePresAck(t, c)

RaceSpec == Init /\ [][RaceNext]_vars

(***************************************************************************)
(* The restriction check on its own: one disclosed item (a revealed        *)
(* attribute, a revealed attribute group or a predicate) under referent    *)
(* "r1", checked against a request whose spec for "r1" carries the         *)
(* restriction clauses drawn.                                              *)
(***************************************************************************)
ClauseKeys == {<<"schema_id">>, <<"issuer_did">>, <<"attr", "degree", "value">>}

ClauseValues(k) ==
    IF k = <<"schema_id">> THEN {SchemaIdA, SchemaIdB}
    ELSE IF k = <<"issuer_did">> THEN {<<"XYZ">>}
    ELSE {<<"PhD">>, <<"MSc">>}

Clauses ==
    UNION { {r \in [keys -> UNION {ClauseValues(k) : k \in ClauseKeys}] :
                 \A k \in keys : r[k] \in ClauseValues(k)} :
            keys \in SUBSET ClauseKeys }

ClauseLists == UNION {[1..n -> Clauses] : n \in 0..MaxClauses}

ChkIdent(c) == [schema_id |-> c.schema_id, cred_def_id |-> CredDefIdA]

\* The request and the proof of the item drawn.
ChkProofReq(c) ==
    IF c.kind = "pred"
    THEN IndyProofReq(EmptyMap,
             "r1" :> [name |-> "degree", p_type |-> ">=", p_value |-> 3,
                      restrictions |-> c.restrictions])
    ELSE IndyProofReq(
             "r1" :> [name |-> "degree", restrictions |-> c.restrictions],
             EmptyMap)

ChkProof(c) ==
    IF c.kind = "attr"
    THEN IndyProof("r1" :> [raw |-> c.raw, sub_proof_index |-> 1],
                   EmptyMap, EmptyMap, <<ChkIdent(c)>>, << <<>> >>)
    ELSE IF c.kind = "group"
    THEN IndyProof(EmptyMap,
                   "r1" :> [values |-> ("degree" :> [raw |-> c.raw]),
                            sub_proof_index |-> 1],
                   EmptyMap, <<ChkIdent(c)>>, << <<>> >>)
    ELSE IndyProof(EmptyMap, EmptyMap, "r1" :> [sub_proof_index |-> 1],
                   <<ChkIdent(c)>>,
                   << << [attr_name |-> "degree", p_type |-> "GE",
                          value |-> 3] >> >>)

\* The criteria the check derives for the item drawn.
ChkCriteria(c) ==
    IF c.kind = "attr" THEN AttrCriteria(ChkIdent(c), "degree", c.raw)
    ELSE IF c.kind = "group"
         THEN GroupCriteria(ChkIdent(c), "degree" :> [raw |-> c.raw])
    ELSE IdentCriteria(ChkIdent(c))

CheckInit ==
    /\ store = <<>>
    /\ last = Did("init", 0, OK, 0, <<>>, 0, None)
    /\ steps = 0
    /\ chk \in [phase : {"drawn"}, kind : {"attr", "group", "pred"},
                 restrictions : ClauseLists,
                 schema_id : {SchemaIdA, SchemaIdB},
                 raw : {<<"PhD">>, <<"MSc">>}, accepted : {FALSE}]

RunCheck ==
    /\ chk.phase = "drawn"
    /\ chk' = [chk EXCEPT
                  !.phase = "checked",
                  !.accepted = CheckProofVsProposal(ChkProof(chk),
                                                    ChkProofReq(chk))]
    /\ UNCHANGED <<store, last, steps>>

CheckNext == RunCheck

CheckSpec == CheckInit /\ [][CheckNext]_vars

(***************************************************************************)
(* receive_pres of one presentation against one stored request, both       *)
(* drawn: the request asks under referent "r1" for an attribute, an        *)
(* attribute group or a predicate on an attribute named "age" in some      *)
(* spelling, the presentation discloses under "r1" an item of some kind    *)
(* from a credential with a short or a long credential definition id.      *)
(* chk holds the presentation drawn; the store holds the verifier's record *)
(* of the request.                                                         *)
(***************************************************************************)
MaxAssertions == 2

CredDefIdLong == <<"XYZ", "3", "CL", "ABC", "2", "degree", "1.0", "tag">>

Kinds == {"attr", "group", "pred"}
AttrNames == {"age", "Age"}
Raws == {<<"18">>, <<"21">>}

DrawnRestrictions ==
    { <<>>,
      << (<<"issuer_did">> :> <<"XYZ">>) >>,
      << (<<"schema_issuer_did">> :> <<"ABC">>) >>,
      << (<<"attr", "age", "value">> :> <<"18">>) >>,
      << (<<"attr", "age", "value">> :> <<"18">>)
            @@ (<<"issuer_did">> :> <<"XYZ">>) >> }

\* The content of the request's indy attachment.
DrawnProofReq(kind, name, restrictions) ==
    IF kind = "pred"
    THEN IndyProofReq(EmptyMap,
             "r1" :> [name |-> name, p_type |-> ">=", p_value |-> 18,
                      restrictions |-> restrictions])
    ELSE IF kind = "group"
    THEN IndyProofReq(
             "r1" :> [names |-> <<name>>, restrictions |-> restrictions],
             EmptyMap)
    ELSE IndyProofReq(
             "r1" :> [name |-> name, restrictions |-> restrictions], EmptyMap)

DrawnProofReqs ==
    { DrawnProofReq(k, n, r) : k \in Kinds, n \in AttrNames,
                               r \in DrawnRestrictions }

\* The assertions ("ge_proofs") of a sub-proof.
Assertions ==
    { [attr_name |-> "age", p_type |-> "GE", value |-> 18],
      [attr_name |-> "age", p_type |-> "GE", value |-> 21],
      [attr_name |-> "age", p_type |-> "LT", value |-> 18],
      [attr_name |-> "height", p_type |-> "GE", value |-> 18] }

AssertionLists == UNION {[1..n -> Assertions] : n \in 0..MaxAssertions}

DrawnIdents ==
    { [schema_id |-> s, cred_def_id |-> c] :
          s \in {SchemaIdA, SchemaIdB}, c \in {CredDefIdA, CredDefIdLong} }

\* The content of the presentation's indy attachment.
DrawnProofs ==
    { IndyProof("r1" :> [raw |-> raw, sub_proof_index |-> 1],
                EmptyMap, EmptyMap, <<ident>>, << <<>> >>) :
          raw \in Raws, ident \in DrawnIdents }
    \cup
    { IndyProof(EmptyMap,
                "r1" :> [values |-> (t[1] :> [raw |-> t[2]]),
                         sub_proof_index |-> 1],
                EmptyMap, <<ident>>, << <<>> >>) :
          t \in AttrNames \X Raws, ident \in DrawnIdents }
    \cup
    { IndyProof(EmptyMap, EmptyMap, "r1" :> [sub_proof_index |-> 1],
                <<ident>>, <<ge_proofs>>) :
          ge_proofs \in AssertionLists, ident \in DrawnIdents }

DrawnRequestMsg(proof_req) ==
    Msg("request", "t1", FALSE, << Att(INDY, proof_req) >>)

DrawnPresMsg(proof) == Msg("pres", "t1", FALSE, << Att(INDY, proof) >>)

ReceiveInit ==
    /\ \E proof_req \in DrawnProofReqs :
           store = << Saved(V30PresExRecord("A", "t1", INITIATOR_SELF,
                          ROLE_VERIFIER, STATE_REQUEST_SENT, NoMsg,
                          DrawnRequestMsg(proof_req), FALSE, FALSE)) >>
    /\ last = Did("init", 0, OK, 0, <<>>, 0, None)
    /\ steps = 0
    /\ chk \in [phase : {"drawn"}, proof : DrawnProofs]

\* The presentation drawn arrives on the record's connection.
ReceiveDrawn ==
    /\ last.op = "init"
    /\ ReceivePres(DrawnPresMsg(chk.proof), "A")

ReceiveNext == ReceiveDrawn

ReceiveSpec == ReceiveInit /\ [][ReceiveNext]_vars

(***************************************************************************)
(* The record object the indy handler's check is given.  The check works   *)
(* on the deserialized request the object holds, and pops the attr:: keys  *)
(* from the clauses of a requested predicate in that structure.  chk holds *)
(* the object and the presentation; store holds what was persisted.        *)
(***************************************************************************)
\* The loop over the disclosed predicates got to the pop for this referent:
\* the loops over revealed attributes and groups raised nothing and the
\* referent is requested.  (The presentations drawn disclose one referent.)
PopReached(proof, proof_req, reft) ==
    /\ \A r \in DOMAIN proof.requested_proof.revealed_attrs :
           RevealedAttrOk(proof, proof_req, r)
    /\ \A r \in DOMAIN proof.requested_proof.revealed_attr_groups :
           RevealedAttrGroupOk(proof, proof_req, r)
    /\ reft \in DOMAIN proof.requested_proof.predicates
    /\ DictGet(proof_req.requested_predicates, reft) # NoSpec

\* The request structure as the check leaves it.
RequestAfterCheck(proof, proof_req) ==
    LET preds == proof_req.requested_predicates
        popped(r) == [preds[r] EXCEPT
                         !.restrictions = StripRestrictions(preds[r].restrictions)]
    IN  [proof_req EXCEPT
            !.requested_predicates =
                [r \in DOMAIN preds |->
                    IF PopReached(proof, proof_req, r) THEN popped(r)
                    ELSE preds[r]]]

ObjectInit ==
    /\ \E proof_req \in DrawnProofReqs :
         LET pres_ex_record ==
                 Saved(V30PresExRecord("A", "t1", INITIATOR_SELF,
                           ROLE_VERIFIER, STATE_REQUEST_SENT, NoMsg,
                           DrawnRequestMsg(proof_req), FALSE, FALSE))
         IN  /\ store = << pres_ex_record >>
             /\ chk \in { [phase |-> "held", proof |-> proof,
                           pres_ex_record |-> pres_ex_record] :
                              proof \in DrawnProofs }
    /\ last = Did("init", 0, OK, 0, <<>>, 0, None)
    /\ steps = 0

\* IndyPresExchangeHandler.receive_pres on the object held.
CheckHeld ==
    /\ More
    /\ LET message == DrawnPresMsg(chk.proof)
           proof_req == IndyContent(chk.pres_ex_record.pres_request.attachments)
       IN  /\ last' = Did("indy_receive_pres", 1,
                          IndyReceivePres(message, chk.pres_ex_record),
                          0, <<>>, 0, None)
           /\ chk' = [chk EXCEPT !.pres_ex_record.pres_request =
                         DrawnRequestMsg(RequestAfterCheck(chk.proof, proof_req))]
    /\ store' = store
    /\ steps' = steps + 1

ObjectNext == CheckHeld

ObjectSpec == ObjectInit /\ [][ObjectNext]_vars

(***************************************************************************)
(* Properties of the state machine.                                        *)
(***************************************************************************)
Terminal == {STATE_DONE, STATE_ABANDONED}

\* The place of a state in the order proposal-* < request-* <
\* presentation-* < done.
Rank(state) ==
    CASE state \in {STATE_PROPOSAL_SENT, STATE_PROPOSAL_RECEIVED} -> 1
      [] state \in {STATE_REQUEST_SENT, STATE_REQUEST_RECEIVED} -> 2
      [] state \in {STATE_PRESENTATION_SENT, STATE_PRESENTATION_RECEIVED} -> 3
      [] OTHER -> 4

\* The operations of the manager and of the request handler on a record.
ManagerOps ==
    {"create_bound_request", "pres_request_handler", "create_pres",
     "receive_pres", "verify_pres", "receive_pres_ack",
     "receive_problem_report"}

\* C1: over any sequence of these operations, the persisted state of a record never
\* moves backward in the order proposal-* < request-* < presentation-* <
\* done, except to enter abandoned from a non-terminal state.
C1_StateNeverMovesBackward ==
    [][\A i \in 1..Len(store) :
           \/ last'.op \notin ManagerOps
           \/ store'[i].state = store[i].state
           \/ /\ store'[i].state = STATE_ABANDONED
              /\ store[i].state \notin Terminal
           \/ /\ store'[i].state # STATE_ABANDONED
              /\ store[i].state # STATE_ABANDONED
              /\ Rank(store'[i].state) >= Rank(store[i].state)]_vars

\* C2: done and abandoned are terminal: once the persisted state of a record
\* is done or abandoned, no later receive_pres, receive_pres_ack,
\* receive_problem_report, receive_pres_request or save_error_state changes
\* it.
C2_TerminalStatesAreFinal ==
    [][\A i \in 1..Len(store) :
           (/\ store[i].state \in Terminal
            /\ last'.op \in {"receive_pres", "receive_pres_ack",
                              "receive_problem_report",
                              "pres_request_handler", "save_error_state"})
               => store'[i].state = store[i].state]_vars

\* C3 as written: verify_pres sends exactly one ack when the presentation
\* verified successfully and the stored request declared will_confirm, and no
\* ack in every other case.  (The profile has a responder.)
C3_AckIffVerifiedAndWillConfirm ==
    [][\A i \in 1..Len(store), v \in {"true", "false"} :
           (last'.op = "verify_pres" /\ VerifyPres(i, v, TRUE))
               => (last'.sent = <<"ack">>
                      <=> /\ last'.outcome = OK
                          /\ store'[i].verified = "true"
                          /\ store[i].pres_request.will_confirm)]_vars

\* C3 as amended: a verify_pres that completes sends exactly one ack when the
\* stored request declared will_confirm and the profile has a responder,
\* whatever the verifier answered; in every other case it sends nothing.
C3_AckIffWillConfirm ==
    [][\A i \in 1..Len(store), v \in {"true", "false"}, r \in BOOLEAN :
           (last'.op = "verify_pres" /\ VerifyPres(i, v, r))
               => /\ last'.sent \in {<<>>, <<"ack">>}
                  /\ last'.sent = <<"ack">>
                         <=> /\ last'.outcome = OK
                             /\ store[i].pres_request.will_confirm
                             /\ r]_vars

\* A verification that failed was acknowledged.
C3_Witness ==
    /\ last.op = "verify_pres"
    /\ last.outcome = OK
    /\ last.sent = <<"ack">>
    /\ store[last.rec].verified = "false"
    /\ store[last.rec].pres_request.will_confirm

\* The key/value pairs of a mapping.
Items(f) == {<<k, f[k]>> : k \in DOMAIN f}

\* The presentation reveals an attribute of the stored request whose derived
\* criteria satisfy none of the restriction clauses the request puts on it.
Tampered(message, rec) ==
    /\ rec.pres_request # NoMsg
    /\ \A i \in 1..Len(message.attachments) :
           message.attachments[i].format = INDY
    /\ \A i \in 1..Len(rec.pres_request.attachments) :
           rec.pres_request.attachments[i].format = INDY
    /\ message.attachments # <<>> /\ rec.pres_request.attachments # <<>>
    /\ LET proof == message.attachments[Len(message.attachments)].content
           proof_req == rec.pres_request.attachments[
                            Len(rec.pres_request.attachments)].content
       IN  \E reft \in DOMAIN proof.requested_proof.revealed_attrs :
               /\ reft \in DOMAIN proof_req.requested_attributes
               /\ LET spec == proof_req.requested_attributes[reft]
                      revealed == proof.requested_proof.revealed_attrs[reft]
                      criteria == AttrCriteria(
                          proof.identifiers[revealed.sub_proof_index],
                          spec.name, revealed.raw)
                  IN  /\ spec.restrictions # <<>>
                      /\ \A k \in 1..Len(spec.restrictions) :
                             ~(Items(spec.restrictions[k])
                                   \subseteq Items(criteria))

\* C4: when a received presentation reveals an attribute whose derived
\* criteria do not satisfy any restriction clause of the stored request,
\* receive_pres fails, nothing is persisted (the record does not become
\* presentation-received and does not hold the presentation), and the
\* verifier is not invoked.
C4_TamperedPresentationRejected ==
    [][\A m \in PresMsgs, c \in Conns \cup {None} :
           (/\ last'.op = "receive_pres"
            /\ ReceivePresLookup(m.thread, c) > 0
            /\ Tampered(m, store[ReceivePresLookup(m.thread, c)])
            /\ ReceivePres(m, c))
               => /\ last'.outcome # OK
                  /\ last'.saves = 0
                  /\ store' = store
                  /\ last'.vcalls = 0]_vars

\* A tampered presentation was received and refused by the indy handler.
C4_Witness ==
    /\ last.op = "receive_pres"
    /\ last.rec > 0
    /\ last.outcome = "V30PresFormatHandlerError"
    /\ store[last.rec].pres = NoMsg
    /\ store[last.rec].state = STATE_REQUEST_SENT

\* C6: calling save_error_state twice in a row on the same record with the
\* same target state (the default target, abandoned, included) persists the
\* record once: the second call performs no write.
C6_SecondSaveErrorStateWritesNothing ==
    [][(/\ last.op = "save_error_state"
        /\ last'.op = "save_error_state"
        /\ last'.rec = last.rec
        /\ last'.target = last.target)
           => last'.saves = 0]_vars

\* C7: in every reachable store there is at most one exchange record per
\* (thread id, connection id) pair.
C7_OneRecordPerThreadAndConnection ==
    \A i, j \in 1..Len(store) :
        (/\ store[i].thread_id = store[j].thread_id
         /\ store[i].connection_id = store[j].connection_id)
            => i = j

\* No attachment of the message has a registered format handler.
NoneRegistered(message) ==
    /\ message # NoMsg
    /\ \A k \in 1..Len(message.attachments) :
           message.attachments[k].format # INDY

\* What the claims require of an operation that found no format handler.
FailsUnsupported ==
    /\ last'.outcome = NoSupportedFormats
    /\ last'.saves = 0
    /\ store' = store

\* C8: when none of the stored request's attachments has a registered format
\* handler, create_pres fails with the no-supported-format error and leaves
\* the record as it was: state, presentation and persisted copy unchanged,
\* no save.
C8_CreatePresUnsupportedFormat ==
    [][\A i \in 1..Len(store), h \in HolderOutcomes :
           (/\ last'.op = "create_pres"
            /\ NoneRegistered(store[i].pres_request)
            /\ CreatePres(i, h))
               => FailsUnsupported]_vars

\* create_pres ran on a record whose request has only an unregistered
\* attachment.
C8_Witness ==
    /\ last.op = "create_pres"
    /\ last.rec > 0
    /\ last.outcome = NoSupportedFormats
    /\ NoneRegistered(store[last.rec].pres_request)

\* C9: create_bound_request, create_pres, receive_pres and verify_pres each
\* fail with the no-supported-format error and persist nothing when no
\* attachment of the message they dispatch on has a registered handler.
C9_EveryDispatchFailsUnsupported ==
    [][/\ \A i \in 1..Len(store) :
              (CreateBoundRequest(i) /\ NoneRegistered(store[i].pres_proposal))
                  => FailsUnsupported
       /\ \A i \in 1..Len(store), h \in HolderOutcomes :
              (CreatePres(i, h) /\ NoneRegistered(store[i].pres_request))
                  => FailsUnsupported
       /\ \A m \in PresMsgs, c \in Conns \cup {None} :
              (/\ ReceivePres(m, c)
               /\ ReceivePresLookup(m.thread, c) > 0
               /\ NoneRegistered(m))
                  => FailsUnsupported
       /\ \A i \in 1..Len(store), v \in {"true", "false"}, r \in BOOLEAN :
              (VerifyPres(i, v, r) /\ NoneRegistered(store[i].pres_request))
                  => FailsUnsupported]_vars

\* C10: receive_pres called with no connection record, when exactly one
\* stored record has the message's thread id, resolves that record and
\* succeeds: the record is persisted in presentation-received with the
\* presentation stored.
C10_ConnectionlessReceiveSucceeds ==
    [][\A m \in PresMsgs :
           LET matching == {i \in 1..Len(store) : store[i].thread_id = m.thread}
           IN  (/\ ReceivePres(m, None)
                /\ Cardinality(matching) = 1
                /\ \A i \in matching :
                       IndyReceivePres(m, store[i]) = OK)
                   => \A i \in matching :
                          /\ last'.outcome = OK
                          /\ last'.rec = i
                          /\ store'[i].state = STATE_PRESENTATION_RECEIVED
                          /\ store'[i].pres = m]_vars

(***************************************************************************)
(* Properties of the restriction check (specification CheckSpec).          *)
(***************************************************************************)
\* The subset law: R is empty, or the pairs of some clause of R are all
\* pairs of C.
SubsetLaw(R, C) ==
    R = <<>> \/ \E i \in 1..Len(R) : Items(R[i]) \subseteq Items(C)

\* The same with the pairs whose key starts with "attr::" left out of the
\* clauses.
SubsetLawWithoutAttrKeys(R, C) ==
    \/ R = <<>>
    \/ \E i \in 1..Len(R) :
           {kv \in Items(R[i]) : kv[1][1] # "attr"} \subseteq Items(C)

\* C5 as written: a disclosed revealed attribute, attribute group or
\* predicate, with restriction clauses R in the request and derived criteria
\* C, is accepted if and only if R is empty or some clause of R has every
\* key/value pair identically in C.
C5_SubsetLaw ==
    chk.phase = "checked"
        => (chk.accepted <=> SubsetLaw(chk.restrictions, ChkCriteria(chk)))

\* C5 as amended: the law holds as written for revealed attributes and
\* attribute groups; for a predicate it holds of the clauses with their
\* "attr::" keys left out.
C5_SubsetLawAfterStripping ==
    chk.phase = "checked"
        => (chk.accepted
                <=> IF chk.kind = "pred"
                    THEN SubsetLawWithoutAttrKeys(chk.restrictions,
                                                  ChkCriteria(chk))
                    ELSE SubsetLaw(chk.restrictions, ChkCriteria(chk)))

\* A predicate was accepted although no clause of its restrictions, taken
\* whole, is within the criteria.
C5_Witness ==
    /\ chk.phase = "checked"
    /\ chk.kind = "pred"
    /\ chk.accepted
    /\ chk.restrictions # <<>>
    /\ ~SubsetLaw(chk.restrictions, ChkCriteria(chk))

(***************************************************************************)
(* Properties of the lookups.                                              *)
(***************************************************************************)
\* The one record of the thread, when it is bound to no connection; 0 when
\* there is no such record.
ConnectionlessRecord(thread_id) ==
    LET found == RetrieveByTagFilter(thread_id, NoFilter)
    IN  IF found > 0 /\ store[found].connection_id = None THEN found ELSE 0

\* C11: receive_pres_ack and receive_problem_report, like receive_pres, fall
\* back to a lookup by thread id alone when the lookup by thread id and
\* connection id finds nothing: an ack or a problem report for a
\* connection-less exchange reaches its record and updates it.
C11_AckAndReportFallBackToThread ==
    [][\A t \in Threads, c \in Conns :
           /\ (/\ last'.op = "receive_pres_ack"
               /\ ConnectionlessRecord(t) > 0
               /\ ReceivePresAck(t, c))
                  => /\ last'.outcome = OK
                     /\ store'[ConnectionlessRecord(t)].state = STATE_DONE
           /\ (/\ last'.op = "receive_problem_report"
               /\ ConnectionlessRecord(t) > 0
               /\ ReceiveProblemReport(t, c))
                  => /\ last'.outcome = OK
                     /\ store'[ConnectionlessRecord(t)].state
                            = STATE_ABANDONED]_vars

\* C12: a presentation that arrives on a known connection never updates the
\* state or the presentation of a record bound to another connection.
C12_OtherConnectionLeavesRecordAlone ==
    [][\A m \in PresMsgs, c \in Conns :
           (last'.op = "receive_pres" /\ ReceivePres(m, c))
               => \A i \in 1..Len(store) :
                      store[i].connection_id \notin {None, c}
                          => /\ store'[i].state = store[i].state
                             /\ store'[i].pres = store[i].pres]_vars

(***************************************************************************)
(* Properties of the path of a record through its states.                  *)
(***************************************************************************)
\* C13: the state in which a new record is first persisted follows from the
\* operation that creates it: create_exchange_for_proposal gives
\* proposal-sent (initiator self), receive_pres_proposal proposal-received
\* (initiator external), create_exchange_for_request request-sent (initiator
\* self), a request received with no record of it request-received (initiator
\* external); no record is first persisted in any other state.
C13_InitialStateByCreator ==
    [][Len(store') > Len(store)
           => LET rec == store'[Len(store')]
              IN  /\ last'.rec = Len(store')
                  /\ \/ /\ last'.op = "create_exchange_for_proposal"
                        /\ last'.first = STATE_PROPOSAL_SENT
                        /\ rec.initiator = INITIATOR_SELF
                     \/ /\ last'.op = "receive_pres_proposal"
                        /\ last'.first = STATE_PROPOSAL_RECEIVED
                        /\ rec.initiator = INITIATOR_EXTERNAL
                     \/ /\ last'.op = "create_exchange_for_request"
                        /\ last'.first = STATE_REQUEST_SENT
                        /\ rec.initiator = INITIATOR_SELF
                     \/ /\ last'.op = "pres_request_handler"
                        /\ last'.first = STATE_REQUEST_RECEIVED
                        /\ rec.initiator = INITIATOR_EXTERNAL]_vars

\* The request handler created a record, persisted it first as
\* request-received, and went on to present.
C13_Witness ==
    /\ last.op = "pres_request_handler"
    /\ last.first = STATE_REQUEST_RECEIVED
    /\ last.saves = 2
    /\ store[last.rec].state = STATE_PRESENTATION_SENT
    /\ store[last.rec].initiator = INITIATOR_EXTERNAL

C15_IdentifierFieldsFrozen ==
    [][\A i \in 1..Len(store) :
           /\ store'[i].initiator = store[i].initiator
           /\ store'[i].role = store[i].role
           /\ store'[i].auto_present = store[i].auto_present
           /\ store'[i].auto_verify = store[i].auto_verify
           /\ store'[i].thread_id = store[i].thread_id]_vars

\* create_bound_request assigned thread_id again, to the thread id of the
\* request it made.
C15_Witness ==
    /\ last.op = "create_bound_request"
    /\ last.outcome = OK
    /\ last.prior = STATE_PROPOSAL_RECEIVED
    /\ store[last.rec].state = STATE_REQUEST_SENT
    /\ store[last.rec].pres_request.thread = store[last.rec].thread_id
    /\ store[last.rec].thread_id \in Threads

\* C16: verified is absent on every record whose state is earlier than done,
\* and when it is present it is the string "true" or the string "false".
C16_VerifiedOnlyOnceDone ==
    \A i \in 1..Len(store) :
        /\ store[i].verified \in {None, "true", "false"}
        /\ store[i].state \notin Terminal => store[i].verified = None

\* C17: error_msg is populated only on abandoned records.
C17_ErrorMsgOnlyWhenAbandoned ==
    \A i \in 1..Len(store) :
        store[i].error_msg # None => store[i].state = STATE_ABANDONED

(***************************************************************************)
(* Properties of the request handler's error path.                         *)
(***************************************************************************)
\* What create_pres does for a record that holds the request message.
PresentingOutcome(message, holder) ==
    CreatePresOutcome([pres_request |-> message], holder)

\* C18: with auto-present enabled, whenever creating the presentation fails
\* (no matching credentials, no supported format, holder error), the handler
\* catches the failure, leaves the record persisted as abandoned with
\* error_msg set to the cause, sends exactly one problem report and sends no
\* presentation.  (The saves themselves succeed.)
C18_HandlerCatchesEveryFailure ==
    [][\A m \in RequestMsgs, c \in Conns, a \in BOOLEAN, h \in HolderOutcomes :
           (/\ last'.op = "pres_request_handler"
            /\ PresentingOutcome(m, h) # OK
            /\ PresRequestHandler(m, c, TRUE, a, h, OK)
            /\ last'.rec > 0
            /\ store'[last'.rec].auto_present)
               => /\ last'.outcome = OK
                  /\ store'[last'.rec].state = STATE_ABANDONED
                  /\ store'[last'.rec].error_msg = PresentingOutcome(m, h)
                  /\ last'.sent = <<"problem-report">>]_vars

\* C19: the problem report the handler sends for a failure it caught does
\* not depend on the cause (its code and its text are "abandoned", and it
\* carries the thread id), so two runs that differ only in the cause send
\* the same report; the error_msg persisted is the cause of the run.
C19_VagueReportPreciseErrorMsg ==
    [][(last'.op = "pres_request_handler" /\ last'.rec > 0) =>
           LET rec == store'[last'.rec]
           IN  \A a \in BOOLEAN, h \in Caught :
                   (/\ rec.auto_present
                    /\ PresentingOutcome(rec.pres_request, h) = h
                    /\ PresRequestHandler(rec.pres_request, rec.connection_id,
                                          TRUE, a, h, OK))
                       => /\ last'.sent = <<"problem-report">>
                          /\ last'.report =
                                 [code |-> "abandoned", en |-> "abandoned",
                                  thread |-> rec.pres_request.thread]
                          /\ rec.error_msg = h]_vars

\* The handler reported a holder error as "abandoned" and kept the cause.
C19_Witness ==
    /\ last.op = "pres_request_handler"
    /\ last.report # NoReport
    /\ last.report.en = "abandoned"
    /\ store[last.rec].state = STATE_ABANDONED
    /\ store[last.rec].error_msg = "IndyHolderError"

\* C20: save_error_state never raises a StorageError to its caller: when
\* its save fails the call returns normally, and the request handler, which
\* calls it for an error it caught, goes on to send its problem report.
C20_StorageErrorSwallowed ==
    [][/\ last'.op = "save_error_state" =>
              \A s \in {None, STATE_ABANDONED}, r \in {None, "IndyHolderError"},
                 st \in StorageOutcomes :
                  SaveErrorStateCall(last'.rec, s, r, st) => last'.outcome = OK
       /\ (last'.op = "pres_request_handler" /\ last'.rec > 0) =>
              LET rec == store'[last'.rec]
              IN  \A a \in BOOLEAN, h \in Caught :
                      (/\ rec.auto_present
                       /\ PresentingOutcome(rec.pres_request, h) = h
                       /\ PresRequestHandler(rec.pres_request, rec.connection_id,
                                             TRUE, a, h, "StorageError"))
                          => /\ last'.outcome = OK
                             /\ last'.swallowed
                             /\ last'.sent = <<"problem-report">>]_vars

\* The save of a save_error_state call failed and the call returned.
C20_Witness ==
    /\ last.op = "save_error_state"
    /\ last.swallowed
    /\ last.outcome = OK
    /\ last.saves = 0
    /\ store[last.rec].state # STATE_ABANDONED

(***************************************************************************)
(* verify_pres without a responder.                                        *)
(***************************************************************************)
\* C21: verify_pres on a record whose request has will_confirm set, run on
\* a profile without a responder, returns normally once its format
\* handlers have returned: the record is saved once, in state done, and
\* nothing is sent.
C21_NoResponderIsNoError ==
    [][last'.op = "verify_pres" =>
           LET rec == store[last'.rec]
           IN  \A v \in {"true", "false"} :
                   (/\ VerifyPresOutcome(rec) = OK
                    /\ rec.pres_request.will_confirm
                    /\ VerifyPres(last'.rec, v, FALSE))
                       => /\ last'.outcome = OK
                          /\ last'.saves = 1
                          /\ store'[last'.rec].state = STATE_DONE
                          /\ store'[last'.rec].last_state = STATE_DONE
                          /\ last'.sent = <<>>]_vars

\* verify_pres finished on a request that asks for an ack, without a
\* responder: the record is done and no ack went out.
C21_Witness ==
    /\ last.op = "verify_pres"
    /\ last.outcome = OK
    /\ last.sent = <<>>
    /\ last.vcalls = 1
    /\ store[last.rec].pres_request.will_confirm
    /\ store[last.rec].state = STATE_DONE

(***************************************************************************)
(* The check of a received presentation against the stored request.        *)
(***************************************************************************)
\* The request stored on the record and the kind of item the presentation
\* drawn discloses.
StoredProofReq == IndyContent(store[1].pres_request.attachments)

DisclosedKind(proof) ==
    IF DOMAIN proof.requested_proof.revealed_attrs # {} THEN "attr"
    ELSE IF DOMAIN proof.requested_proof.revealed_attr_groups # {} THEN "group"
    ELSE "pred"

\* The section of the request in which the check looks the referent up.
RequestSection(proof, proof_req) ==
    IF DisclosedKind(proof) = "pred" THEN proof_req.requested_predicates
    ELSE proof_req.requested_attributes

\* The check got as far as deriving the criteria of the disclosed item.
CriteriaDerived ==
    /\ last.op = "receive_pres"
    /\ "r1" \in DOMAIN RequestSection(chk.proof, StoredProofReq)
    /\ last.outcome # "KeyError"

\* C22: the criteria derived from the identifiers of the disclosed item
\* hold the issuer, name and version segments of the schema id, and as
\* issuer_did the leading segment of the credential definition id, in its
\* short and in its long form.
C22_IdentifierParsing ==
    CriteriaDerived =>
        LET ident == chk.proof.identifiers[1]
            criteria == IdentCriteria(ident)
        IN  /\ criteria[<<"schema_issuer_did">>] = <<ident.schema_id[1]>>
            /\ criteria[<<"schema_name">>] = <<ident.schema_id[3]>>
            /\ criteria[<<"schema_version">>] = <<ident.schema_id[4]>>
            /\ criteria[<<"issuer_did">>] = <<ident.cred_def_id[1]>>

BoundOutcome(message, connection_id, ledger) ==
    LET received == ReceivedProposalRecord(message, connection_id)
    IN  IF CreateBoundRequestOutcome(received) # OK
        THEN CreateBoundRequestOutcome(received)
        ELSE ledger

\* C24 as written: on a proposal over a ready connection the handler calls
\* receive_pres_proposal once; without auto-respond it sends nothing, with
\* auto-respond it calls create_bound_request once on that record and sends
\* exactly one reply, the request produced.
C24_ProposalHandlerAutoRespond ==
    [][(last'.op = "pres_proposal_handler" /\ last'.rec > 0) =>
           LET rec == store'[last'.rec]
           IN  \A a \in BOOLEAN, l \in LedgerOutcomes :
                   PresProposalHandler(rec.pres_proposal, rec.connection_id,
                                       TRUE, a, l)
                       => IF a
                          THEN /\ last'.calls = <<"receive_pres_proposal",
                                                  "create_bound_request">>
                               /\ last'.sent = <<"request">>
                          ELSE /\ last'.calls = <<"receive_pres_proposal">>
                               /\ last'.sent = <<>>]_vars

\* C24 as amended: the reply is the request produced when
\* create_bound_request returns one; when it raises, no request is sent
\* (the handler sends a problem report for an error it catches, and nothing
\* for one it does not).
C24_ProposalHandlerRepliesWhenBound ==
    [][(last'.op = "pres_proposal_handler" /\ last'.rec > 0) =>
           LET rec == store'[last'.rec]
           IN  \A a \in BOOLEAN, l \in LedgerOutcomes :
                   PresProposalHandler(rec.pres_proposal, rec.connection_id,
                                       TRUE, a, l)
                       => LET bound == BoundOutcome(rec.pres_proposal,
                                                    rec.connection_id, l)
                          IN  /\ last'.first = STATE_PROPOSAL_RECEIVED
                              /\ ~a => /\ last'.calls = <<"receive_pres_proposal">>
                                       /\ last'.sent = <<>>
                                       /\ rec.state = STATE_PROPOSAL_RECEIVED
                              /\ a => last'.calls = <<"receive_pres_proposal",
                                                      "create_bound_request">>
                              /\ (a /\ bound = OK) =>
                                     /\ last'.sent = <<"request">>
                                     /\ rec.state = STATE_REQUEST_SENT
                                     /\ rec.pres_request =
                                            BoundRequestMessage(
                                                ReceivedProposalRecord(
                                                    rec.pres_proposal,
                                                    rec.connection_id))
                              /\ (a /\ bound # OK) =>
                                     /\ last'.sent \in {<<>>, <<"problem-report">>}
                                     /\ rec.pres_request = NoMsg]_vars

\* The handler auto-responded to a proposal with the bound request.
C24_Witness ==
    /\ last.op = "pres_proposal_handler"
    /\ last.outcome = OK
    /\ last.calls = <<"receive_pres_proposal", "create_bound_request">>
    /\ last.sent = <<"request">>
    /\ store[last.rec].state = STATE_REQUEST_SENT
    /\ store[last.rec].pres_request.kind = "request"

\* C25: on a connection that is not ready the proposal handler and the
\* request handler raise HandlerException before they call the manager: no
\* record is created or changed, nothing is saved and nothing is sent.
C25_NotReadyRefused ==
    [][/\ last'.op = "pres_proposal_handler" =>
              \A m \in ProposalMsgs, c \in Conns, a \in BOOLEAN :
                  PresProposalHandler(m, c, FALSE, a, OK)
                      => /\ last'.outcome = "HandlerException"
                         /\ last'.calls = <<>>
                         /\ last'.saves = 0
                         /\ last'.sent = <<>>
                         /\ store' = store
       /\ last'.op = "pres_request_handler" =>
              \A m \in RequestMsgs, c \in Conns, a \in BOOLEAN :
                  PresRequestHandler(m, c, FALSE, a, OK, OK)
                      => /\ last'.outcome = "HandlerException"
                         /\ last'.saves = 0
                         /\ last'.sent = <<>>
                         /\ last'.report = NoReport
                         /\ store' = store]_vars

\* A handler refused a message while a record was stored.
C25_Witness ==
    /\ last.outcome = "HandlerException"
    /\ last.op \in {"pres_proposal_handler", "pres_request_handler"}
    /\ last.sent = <<>>
    /\ Len(store) > 0

(***************************************************************************)
(* The restriction check and the verification.                             *)
(***************************************************************************)
\* The indy handler's check ran on the presentation stored on the record,
\* against the record's request, and passed.
CheckRanAndPassed(rec) ==
    /\ HasIndy(rec.pres.attachments)
    /\ rec.pres_request # NoMsg
    /\ HasIndy(rec.pres_request.attachments)
    /\ CheckProofVsProposal(IndyContent(rec.pres.attachments),
                            IndyContent(rec.pres_request.attachments))

\* C26: the restriction check comes before the verification, which relies
\* on it: every receive_pres that stores a presentation, and puts the
\* record in presentation-received, has run the check on that presentation,
\* one without an attachment of a supported format included.
C26_CheckPrecedesVerification ==
    [][(last'.op = "receive_pres" /\ last'.outcome = OK) =>
           /\ store'[last'.rec].state = STATE_PRESENTATION_RECEIVED
           /\ CheckRanAndPassed(store'[last'.rec])]_vars

(***************************************************************************)
(* Operations served concurrently on one exchange.                         *)
(***************************************************************************)
\* C27: the save of an operation that fetched the record earlier does not
\* undo what another operation persisted in between: when a problem report
\* put the record in abandoned after receive_pres fetched it, the record is
\* still abandoned, with the report's error_msg, once receive_pres has
\* saved.
C27_NoLostUpdate ==
    [][(/\ chk # NoChk
        /\ chk' = NoChk
        /\ store[chk.found].state = STATE_ABANDONED
        /\ chk.pres_ex_record.state # STATE_ABANDONED)
           => /\ store'[chk.found].state = STATE_ABANDONED
              /\ store'[chk.found].error_msg = store[chk.found].error_msg]_vars

(***************************************************************************)
(* The predicate step of the check.                                        *)
(***************************************************************************)
\* Some assertion of the sub-proof, at any position, is the requested one.
SomeAssertionMatches(ge_proofs, proof_req_pred_spec) ==
    \E i \in 1..Len(ge_proofs) :
        /\ ge_proofs[i].attr_name = canon(proof_req_pred_spec.name)
        /\ PredicateGet(ge_proofs[i].p_type)
               = PredicateGet(proof_req_pred_spec.p_type)
        /\ ge_proofs[i].value = proof_req_pred_spec.p_value

\* A predicate is disclosed under a referent of the request's predicates.
PredicateStepReached ==
    /\ last.op = "receive_pres"
    /\ DisclosedKind(chk.proof) = "pred"
    /\ "r1" \in DOMAIN StoredProofReq.requested_predicates

\* C28: a disclosed predicate passes the predicate step exactly when its
\* sub-proof holds, at any position, an assertion on the canonicalized
\* requested name with the requested type and threshold; another assertion
\* on the same attribute does not cause rejection.  With the restriction
\* step that follows, receive_pres succeeds exactly when such an assertion
\* is there and the restrictions are satisfied.
C28_PredicatePresence ==
    PredicateStepReached =>
        LET proof_req_pred_spec == StoredProofReq.requested_predicates["r1"]
        IN  (last.outcome = OK) <=>
                /\ SomeAssertionMatches(chk.proof.proof[1], proof_req_pred_spec)
                /\ RestrictionsOk(
                       StripRestrictions(proof_req_pred_spec.restrictions),
                       IdentCriteria(chk.proof.identifiers[1]))

(***************************************************************************)
(* Referents of the presentation that the request does not have.           *)
(***************************************************************************)
\* receive_pres was given a presentation whose disclosed referent is not in
\* the section of the stored request that the check looks it up in.
UnknownReferentReceived ==
    /\ last.op = "receive_pres"
    /\ "r1" \notin DOMAIN RequestSection(chk.proof, StoredProofReq)

\* C29: a presentation that discloses, as a revealed attribute, a revealed
\* attribute group or a predicate, a referent the corresponding section of
\* the stored request does not have is refused by receive_pres, and the
\* record stays as it was: nothing saved, state request-sent, no
\* presentation.
C29_UnknownReferent ==
    UnknownReferentReceived =>
        /\ last.outcome = "V30PresFormatHandlerError"
        /\ last.saves = 0
        /\ store[1].state = STATE_REQUEST_SENT
        /\ store[1].pres = NoMsg

\* A revealed attribute group arrived for a request that asks under the
\* referent for a predicate only, and was refused.
C29_Witness ==
    /\ UnknownReferentReceived
    /\ DisclosedKind(chk.proof) = "group"
    /\ "r1" \in DOMAIN StoredProofReq.requested_predicates
    /\ StoredProofReq.requested_predicates["r1"].restrictions = <<>>
    /\ last.outcome = "V30PresFormatHandlerError"

(***************************************************************************)
(* The criteria key of a disclosed attribute.                              *)
(***************************************************************************)
\* A revealed attribute arrived for a request that asks under its referent
\* for one attribute, restricted by the single clause
\* attr::<canonical name>::value = the raw value revealed.
RestrictedOnCanonicalName ==
    /\ last.op = "receive_pres"
    /\ DisclosedKind(chk.proof) = "attr"
    /\ "r1" \in DOMAIN StoredProofReq.requested_attributes
    /\ LET proof_req_attr_spec == StoredProofReq.requested_attributes["r1"]
       IN  /\ "name" \in DOMAIN proof_req_attr_spec
           /\ proof_req_attr_spec.restrictions =
                  << (<<"attr", canon(proof_req_attr_spec.name), "value">>
                         :> chk.proof.requested_proof.revealed_attrs["r1"].raw) >>

\* C30: the criteria key of a disclosed attribute is built from the
\* canonicalized requested name, so a clause attr::<canonical name>::value
\* = v is satisfied by the revealed raw value v whatever the letter case and
\* whitespace of the requested name: receive_pres accepts the presentation.
C30_CriteriaKeyCanonical ==
    RestrictedOnCanonicalName => last.outcome = OK

(***************************************************************************)
(* Restrictions of a requested predicate.                                  *)
(***************************************************************************)
\* A clause without its keys that begin with attr::.
WithoutAttrKeys(clause) ==
    [k \in {x \in DOMAIN clause : x[1] # "attr"} |-> clause[k]]

\* Some clause, taken without its attr:: keys, is a subset of the criteria,
\* or there is no clause.
SatisfiedWithoutAttrKeys(req_restrictions, criteria) ==
    \/ Len(req_restrictions) = 0
    \/ \E i \in 1..Len(req_restrictions) :
           ItemsSubset(WithoutAttrKeys(req_restrictions[i]), criteria)

\* Every key of every clause begins with attr::.
OnlyAttrKeys(req_restrictions) ==
    /\ Len(req_restrictions) > 0
    /\ \A i \in 1..Len(req_restrictions) :
           \A k \in DOMAIN req_restrictions[i] : k[1] = "attr"

\* C31: for a disclosed predicate the keys of the restriction clauses that
\* begin with attr:: play no part: receive_pres succeeds exactly when the
\* predicate is presented and the clauses without those keys are satisfied
\* by the criteria of the credential, and clauses made only of attr:: keys
\* are satisfied by every credential.
C31_AttrKeysIgnoredForPredicates ==
    PredicateStepReached =>
        LET proof_req_pred_spec == StoredProofReq.requested_predicates["r1"]
            presented == PredicatePresented(chk.proof.proof[1],
                                            proof_req_pred_spec)
        IN  /\ (last.outcome = OK) <=>
                   /\ presented
                   /\ SatisfiedWithoutAttrKeys(
                          proof_req_pred_spec.restrictions,
                          IdentCriteria(chk.proof.identifiers[1]))
            /\ (OnlyAttrKeys(proof_req_pred_spec.restrictions) /\ presented)
                   => last.outcome = OK

\* A predicate restricted only by attr::age::value = 18 was presented and
\* accepted.
C31_Witness ==
    /\ PredicateStepReached
    /\ OnlyAttrKeys(StoredProofReq.requested_predicates["r1"].restrictions)
    /\ last.outcome = OK
    /\ store[1].state = STATE_PRESENTATION_RECEIVED

(***************************************************************************)
(* The check and the request it is given.                                  *)
(***************************************************************************)
\* C32: the check does not modify the request of the record it is given
\* (the restriction clauses of the requested predicates are the same before
\* and after it), and checking the same presentation against the same
\* record again gives the same outcome.
C32_CheckIsPure ==
    [][last'.op = "indy_receive_pres" =>
           /\ chk'.pres_ex_record.pres_request = chk.pres_ex_record.pres_request
           /\ last.op = "indy_receive_pres" => last'.outcome = last.outcome]_vars

(***************************************************************************)
(* States and the message snapshots.                                       *)
(***************************************************************************)
\* The snapshot that goes with the record's state is there.
SnapshotForState(rec) ==
    /\ rec.state \in {STATE_PROPOSAL_SENT, STATE_PROPOSAL_RECEIVED}
           => rec.pres_proposal # NoMsg
    /\ rec.state \in {STATE_REQUEST_SENT, STATE_REQUEST_RECEIVED}
           => rec.pres_request # NoMsg
    /\ rec.state \in {STATE_PRESENTATION_SENT, STATE_PRESENTATION_RECEIVED}
           => rec.pres # NoMsg

\* The operations that perform the transition on a proposal, a request, a
\* presentation.
ProposalOps == {"create_exchange_for_proposal", "receive_pres_proposal"}
RequestOps == {"create_exchange_for_request", "create_bound_request",
               "pres_request_handler"}
PresOps == {"create_pres", "pres_request_handler", "receive_pres"}

C34_StorageFailurePropagates ==
    [][(/\ last'.op \in {"receive_pres", "verify_pres"}
        /\ last'.outcome = "StorageError")
           => /\ store' = store
              /\ last'.saves = 0
              /\ last'.sent = <<>>]_vars

\* The save of verify_pres failed on a record whose request asks for an
\* ack, after the verifier was called: the record is still in
\* presentation-received.
C34_Witness ==
    /\ last.op = "verify_pres"
    /\ last.outcome = "StorageError"
    /\ last.vcalls = 1
    /\ store[last.rec].pres_request.will_confirm
    /\ store[last.rec].state = STATE_PRESENTATION_RECEIVED
    /\ last.sent = <<>>

\* C37: verify_pres emits the ack only once the record is persisted in
\* done, and a failure of the responder while sending the ack leaves the
\* record persisted in done.
C37_AckAfterDone ==
    [][last'.op = "verify_pres" =>
           /\ last'.sent # <<>> =>
                  /\ last'.saves = 1
                  /\ store'[last'.rec].state = STATE_DONE
           /\ last'.outcome = "ResponderError" =>
                  /\ last'.saves = 1
                  /\ last'.sent = <<>>
                  /\ store'[last'.rec].state = STATE_DONE]_vars

\* The responder failed while sending the ack of a record that was in
\* presentation-received: the record is in done.
C37_Witness ==
    /\ last.op = "verify_pres"
    /\ last.outcome = "ResponderError"
    /\ last.prior = STATE_PRESENTATION_RECEIVED
    /\ store[last.rec].state = STATE_DONE

(***************************************************************************)
(* Roles and states.                                                       *)
(***************************************************************************)
\* The states a record of this role has no business in.
ForeignStates(role) ==
    IF role = ROLE_VERIFIER
    THEN {STATE_PROPOSAL_SENT, STATE_REQUEST_RECEIVED, STATE_PRESENTATION_SENT}
    ELSE {STATE_PROPOSAL_RECEIVED, STATE_REQUEST_SENT,
          STATE_PRESENTATION_RECEIVED}

\* C35: whatever messages arrive, a record with role verifier is never in
\* proposal-sent, request-received or presentation-sent, and a record with
\* role prover never in proposal-received, request-sent or
\* presentation-received: an inbound presentation or request that is
\* accepted on a record whose role and state are compatible leaves them
\* compatible.
C35_RoleAndStateCompatible ==
    [][(/\ last'.op \in {"receive_pres", "pres_request_handler"}
        /\ last'.outcome = OK
        /\ last'.rec \in 1..Len(store)
        /\ store[last'.rec].state \notin ForeignStates(store[last'.rec].role))
           => store'[last'.rec].state
                  \notin ForeignStates(store'[last'.rec].role)]_vars

(***************************************************************************)
(* save_error_state without a target state.                                *)
(***************************************************************************)
\* C36: once save_error_state, called without a target state, has
\* returned, the record is in abandoned and, when a reason was given, its
\* error_msg is that reason, whether or not the record was persisted
\* before.
C36_ErrorStateAbandons ==
    chk.phase = "called" =>
        /\ last.outcome = OK
        /\ chk.pres_ex_record.state = STATE_ABANDONED
        /\ chk.reason # None => chk.pres_ex_record.error_msg = chk.reason

(***************************************************************************)
(* The prover's record and the ack.                                        *)
(***************************************************************************)
\* verify_pres succeeded, with a responder, on a request that
\* create_bound_request made.
BoundRequestVerified ==
    /\ last.op = "verify_pres"
    /\ last.outcome = OK
    /\ chk.responder
    /\ store[1].pres_proposal # NoMsg

\* C38: the prover's record reaches done only by receiving an ack.  After
\* a successful verify_pres with a responder on a request made by
\* create_bound_request the prover's record is eventually in done; with a
\* request whose will_confirm is false it stays in presentation-sent; and
\* the only step that takes it to done is receive_pres_ack.
C38_ProverDoneOnlyByAck ==
    /\ BoundRequestVerified ~> (store[2].state = STATE_DONE)
    /\ [](~store[1].pres_request.will_confirm
              => store[2].state = STATE_PRESENTATION_SENT)
    /\ [][(store'[2].state = STATE_DONE /\ store[2].state # STATE_DONE)
              => last'.op = "receive_pres_ack"]_vars

\* The ack of a verified bound request arrived: both records are in done.
C38_Witness ==
    /\ last.op = "receive_pres_ack"
    /\ last.outcome = OK
    /\ last.rec = 2
    /\ chk.responder
    /\ store[1].pres_proposal # NoMsg
    /\ store[1].state = STATE_DONE
    /\ store[2].state = STATE_DONE
    /\ store[2].role = ROLE_PROVER

====
